---- MODULE Spec2Model ----
(***************************************************************************)
(* State-machine model of the MQTTClient class of src/mqtt-client.js (the  *)
(* multi-device client) together with the helper methods it keeps from the *)
(* original client, src/unnamed/part_002 (_handleError, _scheduleReconnect,*)
(* _queueMessage, _processMessageQueue, _triggerEvent, destroy, ...).      *)
(*                                                                         *)
(* Strings are sequences of pieces: a literal of the source is one piece   *)
(* (a TLA+ string), a device identifier or device key is a sequence of     *)
(* one-character pieces, and a template literal is their concatenation.    *)
(***************************************************************************)
EXTENDS Integers, Sequences, FiniteSets, TLC

(***************************************************************************)
(* Bounds of the model                                                     *)
(***************************************************************************)
\* longest raw device identifier enumerated as an input of setDeviceId
MaxIdLen == 2
\* the clock (Date.now()) runs from 0 to MaxTime
MaxTime == 2

(***************************************************************************)
(* JavaScript values                                                       *)
(***************************************************************************)
\* null / undefined, for each type of value that can be unset
NoDevice == <<>>
\* this.lastActivity = null
NoActivity == -1
NoToken == "null"
NoExpiry == -1
Undefined == <<"undefined">>

Min(a, b) == IF a <= b THEN a ELSE b

\* obj[key] of a JSON object: undefined (here: none) when the key is absent
Get(obj, key, none) == IF key \in DOMAIN obj THEN obj[key] ELSE none
\* obj[key] = value
Put(obj, key, value) == [k \in DOMAIN obj \cup {key} |-> IF k = key THEN value ELSE obj[k]]
\* delete obj[key]
Delete(obj, key) == [k \in DOMAIN obj \ {key} |-> obj[k]]
\* the object {} and the Map()
Empty == [k \in {} |-> 0]
\* array.splice(i, 1)
RemoveAt(seq, i) == SubSeq(seq, 1, i - 1) \o SubSeq(seq, i + 1, Len(seq))

\* characters of the identifiers enumerated as inputs
Alphabet == {"K", "k", " ", "-"}

UpperCase == <<"A","B","C","D","E","F","G","H","I","J","K","L","M",
               "N","O","P","Q","R","S","T","U","V","W","X","Y","Z">>
LowerCase == <<"a","b","c","d","e","f","g","h","i","j","k","l","m",
               "n","o","p","q","r","s","t","u","v","w","x","y","z">>
Digits == {"0","1","2","3","4","5","6","7","8","9"}
WhiteSpace == {" "}

\* String.prototype.toLowerCase, character by character
toLowerCase(s) ==
    [i \in 1..Len(s) |->
        IF \E j \in 1..Len(UpperCase) : UpperCase[j] = s[i]
        THEN LowerCase[CHOOSE j \in 1..Len(UpperCase) : UpperCase[j] = s[i]]
        ELSE s[i]]

\* String.prototype.replace(/[^a-z0-9]/g, '_')
replaceNonAlnum(s) ==
    [i \in 1..Len(s) |->
        IF s[i] \in ({LowerCase[j] : j \in 1..Len(LowerCase)} \cup Digits)
        THEN s[i] ELSE "_"]

RECURSIVE trimStart(_)
trimStart(s) ==
    IF s # <<>> /\ Head(s) \in WhiteSpace THEN trimStart(Tail(s)) ELSE s

RECURSIVE trimEnd(_)
trimEnd(s) ==
    IF s # <<>> /\ s[Len(s)] \in WhiteSpace
    THEN trimEnd(SubSeq(s, 1, Len(s) - 1)) ELSE s

\* String.prototype.trim
trim(s) == trimEnd(trimStart(s))

RECURSIVE SeqsUpTo(_, _)
SeqsUpTo(S, n) ==
    IF n = 0 THEN {<<>>}
    ELSE LET shorter == SeqsUpTo(S, n - 1)
         IN  shorter \cup {Append(s, c) : s \in {t \in shorter : Len(t) = n - 1}, c \in S}

\* the identifier of the spec's scenario, "Kitchen Clock"
KitchenClock == <<"K","i","t","c","h","e","n"," ","C","l","o","c","k">>
\* a second identifier with the same device key, "kitchen_clock"
KitchenClockKey == <<"k","i","t","c","h","e","n","_","c","l","o","c","k">>

\* raw arguments of setDeviceId: every short string over Alphabet (the empty
\* and the whitespace-only ones included), null, and the scenario's identifiers
RawDeviceIds == SeqsUpTo(Alphabet, MaxIdLen) \cup {KitchenClock, KitchenClockKey}

(***************************************************************************)
(* State: the fields of the MQTTClient object, the persisted storage, the  *)
(* transport and the pending callbacks                                     *)
(***************************************************************************)
VARIABLES
    currentDeviceId,    \* this.currentDeviceId
    TOPICS,             \* this.config.MQTT.TOPICS
    authToken,          \* this.authToken
    tokenExpiry,        \* this.tokenExpiry
    authRequired,       \* this.authRequired
    authTokens,         \* localStorage 'smartclock_auth_tokens': deviceId -> token
    sessionExpiries,    \* localStorage 'smartclock_session_expiries': deviceId -> expiry
    lastDeviceId,       \* localStorage 'smartclock_last_device_id'
    now,                \* Date.now()
    client,             \* this.client: 0 (null) or the id of a transport client
    connected,          \* this.connected
    reconnecting,       \* this.reconnecting
    connectionAttempts, \* this.connectionAttempts
    autoReconnect,      \* this.autoReconnect
    reconnectTimer,     \* this.reconnectTimer and whether that timer is still pending
    healthCheckInterval,\* this.healthCheckInterval (the interval is armed)
    subscriptions,      \* this.subscriptions: topic -> record
    messageQueue,       \* this.messageQueue
    stats,              \* this.stats (messagesSent, bytesSent)
    sessions,           \* the transport clients mqtt.connect created: id -> record
    ops,                \* transport requests whose callback has not run yet
    flushes,            \* running _processMessageQueue calls
    statusTasks,        \* _publishDeviceStatus calls waiting for _getClientIP
    subscribeTimers,    \* pending setTimeout(..., 500) of setDeviceId
    lastActivity,       \* this.lastActivity
    auths,              \* the authenticate() calls made so far
    messageHandlers,    \* this.messageHandlers: topic -> handlers
    globalHandlers,     \* this.globalHandlers
    eventCallbacks,     \* this.eventCallbacks.message
    availableDevices,   \* this.availableDevices: deviceId -> record
    storage,            \* how localStorage behaves: "ok", "unreadable" or "full"
    deliveredIds,       \* queue entries whose publish the transport acknowledged
    nextId,             \* number of queue entries created so far (object identity)
    tracked,            \* id of the entry publish() queued into an empty queue
    firstAfter,         \* first publish handed to the transport after that
    lastDelay,          \* the last two delays _scheduleReconnect computed
    first,              \* the first device id set, the topics derived for it,
                        \* and whether another device was selected since
    scheduled,          \* the last step armed the reconnect timer
    events,             \* events handed to _triggerEvent by the last step
    received,           \* the authentication response the last step delivered
    fired,              \* the timer whose callback the last step ran
    invoked,            \* handlers and callbacks the last step called, in order
    returned            \* how the call or promise of the last step ended

vars == <<currentDeviceId, TOPICS, authToken, tokenExpiry, authRequired, authTokens,
          sessionExpiries, lastDeviceId, now, client, connected, reconnecting,
          connectionAttempts, autoReconnect, reconnectTimer, healthCheckInterval,
          subscriptions, messageQueue, stats, sessions, ops, flushes, statusTasks,
          subscribeTimers, lastActivity, auths, messageHandlers, globalHandlers,
          eventCallbacks, availableDevices, storage, invoked, deliveredIds, nextId,
          tracked, firstAfter, lastDelay, first, scheduled, events, received, fired,
          returned>>

\* no call returned and no promise settled in the step; args are the arguments
\* of the call where a property needs them
NoArgs == [k \in {} |-> 0]
\* no message was delivered in the step; held is this.authToken as the
\* message found it
NoMessage == [aid |-> 0, session |-> 0, msg |-> [text |-> ""], held |-> NoToken]
NoReturn == [call |-> "none", outcome |-> "none", value |-> "none", args |-> NoArgs]

\* the state as one record, so that a handler is a function from state to state
\* and a call made by a handler is an application; events and returned tell what
\* the step did, and cleanupDue that the continuation of disconnect() is due as
\* soon as the running handler ends
State ==
    [currentDeviceId |-> currentDeviceId, TOPICS |-> TOPICS, authToken |-> authToken,
     tokenExpiry |-> tokenExpiry, authRequired |-> authRequired,
     authTokens |-> authTokens, sessionExpiries |-> sessionExpiries,
     lastDeviceId |-> lastDeviceId, now |-> now, client |-> client,
     connected |-> connected, reconnecting |-> reconnecting,
     connectionAttempts |-> connectionAttempts, autoReconnect |-> autoReconnect,
     reconnectTimer |-> reconnectTimer, healthCheckInterval |-> healthCheckInterval,
     subscriptions |-> subscriptions, messageQueue |-> messageQueue, stats |-> stats,
     sessions |-> sessions, ops |-> ops, flushes |-> flushes,
     statusTasks |-> statusTasks, subscribeTimers |-> subscribeTimers,
     lastActivity |-> lastActivity, auths |-> auths,
     messageHandlers |-> messageHandlers, globalHandlers |-> globalHandlers,
     eventCallbacks |-> eventCallbacks, availableDevices |-> availableDevices,
     storage |-> storage, invoked |-> <<>>, deliveredIds |-> deliveredIds,
     nextId |-> nextId, tracked |-> tracked, firstAfter |-> firstAfter,
     lastDelay |-> lastDelay, first |-> first, scheduled |-> FALSE,
     events |-> {}, received |-> NoMessage, fired |-> "none",
     returned |-> NoReturn,
     cleanupDue |-> FALSE]

\* the step ends in state s
Commit(s) ==
    /\ currentDeviceId' = s.currentDeviceId
    /\ TOPICS' = s.TOPICS
    /\ authToken' = s.authToken
    /\ tokenExpiry' = s.tokenExpiry
    /\ authRequired' = s.authRequired
    /\ authTokens' = s.authTokens
    /\ sessionExpiries' = s.sessionExpiries
    /\ lastDeviceId' = s.lastDeviceId
    /\ now' = s.now
    /\ client' = s.client
    /\ connected' = s.connected
    /\ reconnecting' = s.reconnecting
    /\ connectionAttempts' = s.connectionAttempts
    /\ autoReconnect' = s.autoReconnect
    /\ reconnectTimer' = s.reconnectTimer
    /\ healthCheckInterval' = s.healthCheckInterval
    /\ subscriptions' = s.subscriptions
    /\ messageQueue' = s.messageQueue
    /\ stats' = s.stats
    /\ sessions' = s.sessions
    /\ ops' = s.ops
    /\ flushes' = s.flushes
    /\ statusTasks' = s.statusTasks
    /\ subscribeTimers' = s.subscribeTimers
    /\ lastActivity' = s.lastActivity
    /\ auths' = s.auths
    /\ messageHandlers' = s.messageHandlers
    /\ globalHandlers' = s.globalHandlers
    /\ eventCallbacks' = s.eventCallbacks
    /\ availableDevices' = s.availableDevices
    /\ storage' = s.storage
    /\ invoked' = s.invoked
    /\ deliveredIds' = s.deliveredIds
    /\ nextId' = s.nextId
    /\ tracked' = s.tracked
    /\ firstAfter' = s.firstAfter
    /\ lastDelay' = s.lastDelay
    /\ first' = s.first
    /\ scheduled' = s.scheduled
    /\ events' = s.events
    /\ received' = s.received
    /\ fired' = s.fired
    /\ returned' = s.returned


(***************************************************************************)
(* Events                                                                  *)
(***************************************************************************)
\* handlers.forEach(handler => { try { handler(...) } catch (error) { ... } }):
\* every handler of the array is called, in the order of the array, whether
\* the ones before it threw or not
forEachHandler(handlers, scope) ==
    [i \in 1..Len(handlers) |-> [scope |-> scope, handler |-> handlers[i]]]

\* _triggerEvent: the callbacks registered for the event run, each in its own
\* try/catch; the step records which events were raised, and the callbacks of
\* 'message' that ran
_triggerEvent(s, event) ==
    [s EXCEPT !.events = @ \cup {event},
              !.invoked = IF event = "message"
                          THEN @ \o forEachHandler(s.eventCallbacks, "event")
                          ELSE @]

\* a call returns, or its promise settles
Returned(s, call, outcome, value) ==
    [s EXCEPT !.returned = [call |-> call, outcome |-> outcome, value |-> value,
                            args |-> NoArgs]]

(***************************************************************************)
(* Topic derivation                                                        *)
(***************************************************************************)
TOPIC_PREFIX == <<"smartclock/">>

\* the templates the constructor installs
DefaultTopics ==
    [COMMAND |-> <<"smartclock/{device_id}/command">>,
     STATUS |-> <<"smartclock/{device_id}/status">>,
     ALARM |-> <<"smartclock/{device_id}/alarm">>,
     SENSORS |-> <<"smartclock/{device_id}/sensors">>,
     AUTH |-> <<"smartclock/{device_id}/auth">>,
     AUTH_RESPONSE |-> Undefined,
     TEST |-> <<"smartclock/{device_id}/test">>]

\* const deviceKey = this.currentDeviceId.toLowerCase().replace(/[^a-z0-9]/g, '_')
DeviceKey(deviceId) == replaceNonAlnum(toLowerCase(deviceId))

\* a mutant: the device id goes into the topics as it was given
UpdateTopicsRawId(s) ==
    IF s.currentDeviceId = NoDevice THEN s
    ELSE LET deviceKey == s.currentDeviceId
         IN  [s EXCEPT !.TOPICS =
                [COMMAND |-> TOPIC_PREFIX \o deviceKey \o <<"/command">>,
                 STATUS |-> TOPIC_PREFIX \o deviceKey \o <<"/status">>,
                 ALARM |-> TOPIC_PREFIX \o deviceKey \o <<"/alarm">>,
                 SENSORS |-> TOPIC_PREFIX \o deviceKey \o <<"/sensors">>,
                 AUTH |-> TOPIC_PREFIX \o deviceKey \o <<"/auth">>,
                 AUTH_RESPONSE |-> TOPIC_PREFIX \o deviceKey
                                     \o <<"/auth/response/", "{clientId}">>,
                 TEST |-> TOPIC_PREFIX \o deviceKey \o <<"/test">>]]

_updateTopicsForDevice(s) ==
    IF s.currentDeviceId = NoDevice THEN s
    ELSE LET deviceKey == DeviceKey(s.currentDeviceId)
         IN  [s EXCEPT !.TOPICS =
                [COMMAND |-> TOPIC_PREFIX \o deviceKey \o <<"/command">>,
                 STATUS |-> TOPIC_PREFIX \o deviceKey \o <<"/status">>,
                 ALARM |-> TOPIC_PREFIX \o deviceKey \o <<"/alarm">>,
                 SENSORS |-> TOPIC_PREFIX \o deviceKey \o <<"/sensors">>,
                 AUTH |-> TOPIC_PREFIX \o deviceKey \o <<"/auth">>,
                 AUTH_RESPONSE |-> TOPIC_PREFIX \o deviceKey
                                     \o <<"/auth/response/", "{clientId}">>,
                 TEST |-> TOPIC_PREFIX \o deviceKey \o <<"/test">>]]

(***************************************************************************)
(* Token store                                                             *)
(***************************************************************************)
\* localStorage.getItem throws, or returns text that JSON.parse rejects
Unreadable(s) == s.storage = "unreadable"
\* localStorage.setItem throws (the quota is exceeded, or storage is disabled)
Unwritable(s) == s.storage = "full"

\* the catch block sets both fields to null
_loadAuthToken(s) ==
    IF s.currentDeviceId = NoDevice THEN s
    ELSE IF Unreadable(s)
    THEN [s EXCEPT !.authToken = NoToken, !.tokenExpiry = NoExpiry]
    ELSE LET token == Get(s.authTokens, s.currentDeviceId, NoToken)
             expiry == Get(s.sessionExpiries, s.currentDeviceId, NoExpiry)
         IN  IF token # NoToken /\ expiry # NoExpiry /\ expiry # 0 /\ s.now < expiry
             THEN [s EXCEPT !.authToken = token, !.tokenExpiry = expiry]
             ELSE [s EXCEPT !.authToken = NoToken, !.tokenExpiry = NoExpiry]

\* a mutant: the token is kept in memory only
SaveAuthTokenMemoryOnly(s, token, expiry) ==
    IF s.currentDeviceId = NoDevice \/ token = NoToken THEN s
    ELSE [s EXCEPT !.authToken = token, !.tokenExpiry = expiry]

\* the fields are assigned after the writes: when reading or the first write
\* throws, the catch block logs and nothing has changed
_saveAuthToken(s, token, expiry) ==
    IF s.currentDeviceId = NoDevice \/ token = NoToken THEN s
    ELSE IF Unreadable(s) \/ Unwritable(s) THEN s
    ELSE [s EXCEPT !.authTokens = Put(@, s.currentDeviceId, token),
                   !.sessionExpiries = Put(@, s.currentDeviceId, expiry),
                   !.lastDeviceId = s.currentDeviceId,
                   !.authToken = token,
                   !.tokenExpiry = expiry]

\* a mutant: clearing empties the store
ClearAuthTokenAll(s) ==
    IF s.currentDeviceId = NoDevice THEN s
    ELSE [s EXCEPT !.authTokens = Empty,
                   !.sessionExpiries = Empty,
                   !.authToken = NoToken,
                   !.tokenExpiry = NoExpiry]

\* the fields are set to null after the writes: when reading or the first
\* write throws, the catch block logs and nothing has changed
_clearAuthToken(s) ==
    IF s.currentDeviceId = NoDevice THEN s
    ELSE IF Unreadable(s) \/ Unwritable(s) THEN s
    ELSE [s EXCEPT !.authTokens = Delete(@, s.currentDeviceId),
                   !.sessionExpiries = Delete(@, s.currentDeviceId),
                   !.authToken = NoToken,
                   !.tokenExpiry = NoExpiry]

\* returns the state the check leaves (an expired token is cleared) and its result
_isTokenValid(s) ==
    IF s.authToken = NoToken \/ s.tokenExpiry = NoExpiry \/ s.tokenExpiry = 0
    THEN [st |-> s, ret |-> FALSE]
    ELSE IF s.now >= s.tokenExpiry
         THEN [st |-> _clearAuthToken(s), ret |-> FALSE]
         ELSE [st |-> s, ret |-> TRUE]


(***************************************************************************)
(* Transport requests                                                      *)
(***************************************************************************)
\* who continues when the transport calls back: a promise of the caller
\* ("call"), a _publishDeviceStatus whose result is dropped ("status"), a
\* _processMessageQueue that awaits the publish of entry `entry` ("flush"), or
\* one of the subscribe / unsubscribe callbacks
Owner(kind, call, fid, entry) == [kind |-> kind, call |-> call, fid |-> fid, entry |-> entry]
\* no queue entry
NoEntry == [id |-> 0, topic |-> <<>>, message |-> Empty, options |-> Empty,
            timestamp |-> 0, attempts |-> 0]
NoOwner == Owner("none", "none", 0, NoEntry)

\* JSON.stringify(message): a string that parses back to the message
JSONstringify(message) == [json |-> message]
\* payload.length, counted in members of the serialized object
length(payload) == Cardinality(DOMAIN payload.json)

\* { ...defaults, ...options }
Merge(defaults, options) ==
    [k \in DOMAIN defaults \cup DOMAIN options |->
        IF k \in DOMAIN options THEN options[k] ELSE defaults[k]]

\* client.publish / client.subscribe / client.unsubscribe on this.client: the
\* request is with the transport until Ack runs its callback
Request(s, kind, topic, payload, options, owner, group) ==
    [s EXCEPT
        !.ops = Append(@, [kind |-> kind, session |-> s.client, topic |-> topic,
                           payload |-> payload, options |-> options,
                           owner |-> owner, group |-> group]),
        !.firstAfter = IF kind = "publish" /\ s.tracked # 0 /\ s.firstAfter = NoOwner
                       THEN owner ELSE @]

(***************************************************************************)
(* Offline queue                                                           *)
(***************************************************************************)
\* capacity of the offline queue (this.maxQueueSize, 50 in the source)
maxQueueSize == 3
processQueueOnReconnect == TRUE

\* a mutant: at capacity the newest entry is dropped instead of the oldest
QueueMessageDropNewest(s, topic, message, options) ==
    LET kept == IF Len(s.messageQueue) >= maxQueueSize
                THEN SubSeq(s.messageQueue, 1, Len(s.messageQueue) - 1)
                ELSE s.messageQueue
    IN  [s EXCEPT !.messageQueue =
                      Append(kept, [id |-> s.nextId + 1, topic |-> topic,
                                    message |-> message, options |-> options,
                                    timestamp |-> s.now, attempts |-> 0]),
                  !.nextId = @ + 1]

\* id is the identity of the entry object the push creates
_queueMessage(s, topic, message, options) ==
    LET kept == IF Len(s.messageQueue) >= maxQueueSize
                THEN Tail(s.messageQueue)
                ELSE s.messageQueue
    IN  [s EXCEPT !.messageQueue =
                      Append(kept, [id |-> s.nextId + 1, topic |-> topic,
                                    message |-> message, options |-> options,
                                    timestamp |-> s.now, attempts |-> 0]),
                  !.nextId = @ + 1]

(***************************************************************************)
(* publish                                                                 *)
(***************************************************************************)
\* the state publish leaves and how its promise stands when it returns
publish(s, topic, message, options, owner) ==
    IF ~s.connected /\ processQueueOnReconnect
    THEN [st |-> _queueMessage(s, topic, message, options),
          outcome |-> "resolved", value |-> "true"]
    ELSE IF s.client = 0 \/ ~s.connected
    THEN [st |-> s, outcome |-> "rejected", value |-> "Cannot publish: MQTT not connected"]
    ELSE [st |-> Request(s, "publish", topic, JSONstringify(message),
                         Merge([qos |-> 0, retain |-> FALSE], options), owner, 0),
          outcome |-> "pending", value |-> "none"]

\* the callback of client.publish in publish(), without error
PublishCallback(s, op) ==
    _triggerEvent(
        [s EXCEPT !.stats = [@ EXCEPT !.messagesSent = @ + 1,
                                      !.bytesSent = @ + length(op.payload)],
                  !.lastActivity = s.now],
        "publish")

(***************************************************************************)
(* _publishDeviceStatus                                                    *)
(***************************************************************************)
\* up to `await this._getClientIP()`
_publishDeviceStatus(s, status) == [s EXCEPT !.statusTasks = Append(@, status)]

\* from the await on: the message is built from the fields as they are now
PublishDeviceStatusResume(s, status) ==
    publish(s, s.TOPICS.STATUS,
            [status |-> status, deviceId |-> s.currentDeviceId,
             mqttAuthEnabled |-> s.authRequired],
            [qos |-> 1, retain |-> TRUE],
            Owner("status", "none", 0, NoEntry)).st

(***************************************************************************)
(* _processMessageQueue                                                    *)
(***************************************************************************)
\* the array a running flush iterates: this.messageQueue for as long as that is
\* still the array it started on, else the array as it was when it was replaced
FlushArray(s, f) == IF f.attached THEN s.messageQueue ELSE f.arr

FlushIndex(s, fid) == CHOOSE i \in 1..Len(s.flushes) : s.flushes[i].fid = fid

\* queuedMessage.attempts++ on the entry object, wherever it is referenced
BumpIn(seq, id) ==
    [i \in 1..Len(seq) |->
        IF seq[i].id = id THEN [seq[i] EXCEPT !.attempts = @ + 1] ELSE seq[i]]

\* the catch block of the loop body; entry is the object the loop variable holds
FlushCatch(s, fid, entry) ==
    LET i == FlushIndex(s, fid)
        failedEntry == [entry EXCEPT !.attempts = @ + 1]
        bumped == [s EXCEPT
            !.messageQueue = BumpIn(@, entry.id),
            !.flushes = [j \in 1..Len(@) |->
                            [@[j] EXCEPT !.arr = BumpIn(@, entry.id),
                                         !.failed = BumpIn(@, entry.id)]],
            !.ops = [j \in 1..Len(@) |->
                        IF @[j].owner.entry.id = entry.id
                        THEN [@[j] EXCEPT !.owner.entry.attempts = @ + 1]
                        ELSE @[j]]]
    IN  IF failedEntry.attempts < 3
        THEN [bumped EXCEPT !.flushes[i].failed = Append(@, failedEntry)]
        ELSE bumped

\* one turn of the loop: publish the entry at the index and await the promise
FlushPublish(s, fid) ==
    LET i == FlushIndex(s, fid)
        f == s.flushes[i]
        entry == FlushArray(s, f)[f.idx]
        r == publish(s, entry.topic, entry.message, entry.options,
                     Owner("flush", "none", fid, entry))
    IN  CASE r.outcome = "pending" ->
                [r.st EXCEPT !.flushes[i].pc = "publish"]
          [] r.outcome = "resolved" ->
                [r.st EXCEPT !.flushes[i].pc = "delay"]
          [] OTHER ->
                [FlushCatch(r.st, fid, entry) EXCEPT !.flushes[i].pc = "delay"]

\* the call up to its first await
_processMessageQueue(s) ==
    IF ~s.connected \/ Len(s.messageQueue) = 0 THEN s
    ELSE LET fid == CHOOSE n \in 1..(Len(s.flushes) + 1) :
                        \A i \in 1..Len(s.flushes) : s.flushes[i].fid # n
             started == [s EXCEPT !.flushes =
                            Append(@, [fid |-> fid, idx |-> 1,
                                       failed |-> <<>>, attached |-> TRUE,
                                       arr |-> <<>>, pc |-> "start"])]
         IN  FlushPublish(started, fid)

\* after the 100 ms delay: the next entry, or the end of the loop, where
\* this.messageQueue = failedMessages replaces the array
FlushResume(s, fid) ==
    LET i == FlushIndex(s, fid)
        f == s.flushes[i]
        arr == FlushArray(s, f)
    IN  IF f.idx + 1 <= Len(arr)
        THEN FlushPublish([s EXCEPT !.flushes[i].idx = @ + 1], fid)
        ELSE LET detached ==
                    [j \in 1..Len(s.flushes) |->
                        IF s.flushes[j].attached
                        THEN [s.flushes[j] EXCEPT !.attached = FALSE,
                                                  !.arr = s.messageQueue]
                        ELSE s.flushes[j]]
             IN  [s EXCEPT !.messageQueue = f.failed,
                           !.flushes = RemoveAt(detached, i)]


(***************************************************************************)
(* Subscriptions                                                           *)
(***************************************************************************)
RECURSIVE SetToSeq(_)
SetToSeq(S) ==
    IF S = {} THEN <<>>
    ELSE LET x == CHOOSE y \in S : TRUE IN <<x>> \o SetToSeq(S \ {x})

\* up to `await Promise.all(promises)`: the three subscribe requests
_subscribeDeviceTopics(s) ==
    IF ~s.connected \/ s.client = 0 THEN s
    ELSE LET owner == Owner("deviceSub", "none", 0, NoEntry)
             s1 == Request(s, "subscribe", s.TOPICS.STATUS, Empty, [qos |-> 1], owner, 0)
             s2 == Request(s1, "subscribe", s.TOPICS.ALARM, Empty, [qos |-> 1], owner, 0)
         IN  Request(s2, "subscribe", s.TOPICS.SENSORS, Empty, [qos |-> 1], owner, 0)

RECURSIVE RequestAll(_, _, _, _, _)
RequestAll(s, kind, topics, owner, group) ==
    IF topics = <<>> THEN s
    ELSE RequestAll(Request(s, kind, Head(topics), Empty, Empty, owner, group),
                    kind, Tail(topics), owner, group)

\* up to `await Promise.allSettled(promises)`: one unsubscribe request for
\* each recorded subscription of the device
_unsubscribeDeviceTopics(s, deviceId) ==
    IF s.client = 0 THEN s
    ELSE LET topicsToUnsubscribe ==
                 {t \in DOMAIN s.subscriptions : s.subscriptions[t].deviceId = deviceId}
         IN  RequestAll(s, "unsubscribe", SetToSeq(topicsToUnsubscribe),
                        Owner("deviceUnsub", "none", 0, NoEntry), 0)

\* unsubscribe(topic): resolves false at once when not connected; group names
\* the disconnect() that waits for the promise (0: none)
unsubscribe(s, topic, group) ==
    IF s.client = 0 \/ ~s.connected
    THEN [st |-> s, outcome |-> "resolved", value |-> "false"]
    ELSE [st |-> Request(s, "unsubscribe", topic, Empty, Empty,
                         Owner("unsubscribe", "unsubscribe", 0, NoEntry), group),
          outcome |-> "pending", value |-> "none"]

RECURSIVE UnsubscribeAll(_, _, _)
UnsubscribeAll(s, topics, group) ==
    IF topics = <<>> THEN s
    ELSE UnsubscribeAll(unsubscribe(s, Head(topics), group).st, Tail(topics), group)

(***************************************************************************)
(* Health check, errors and reconnect                                      *)
(***************************************************************************)
maxConnectionAttempts == 10
reconnectDelay == 2000
\* this.reconnectBackoffFactor = 1.5 = BackoffNum / BackoffDen
BackoffNum == 3
BackoffDen == 2
\* the cap of the delay, in ms
MaxReconnectDelay == 30000

RECURSIVE Pow(_, _)
Pow(b, n) == IF n = 0 THEN 1 ELSE b * Pow(b, n - 1)

\* delays are kept as multiples of 1 / DelayUnit ms, which makes every
\* reconnectDelay * 1.5^n with n <= maxConnectionAttempts a whole number
DelayUnit == Pow(BackoffDen, maxConnectionAttempts)

_startHealthCheck(s) == [s EXCEPT !.healthCheckInterval = TRUE]
_stopHealthCheck(s) == [s EXCEPT !.healthCheckInterval = FALSE]

\* the session length used when the response names none, 3600000 ms in the
\* source; the model's clock counts in units of half that
DefaultExpiry == 2

\* this.healthCheckTime, in ms
healthCheckTime == 30000
\* one unit of the model's clock in ms (DefaultExpiry units are 3600000 ms)
ClockUnit == 3600000 \div DefaultExpiry

\* Date.now() - this.lastActivity > this.healthCheckTime * 2
Inactive(s) ==
    /\ s.lastActivity # NoActivity
    /\ (s.now - s.lastActivity) * ClockUnit > healthCheckTime * 2

\* the callback of the setInterval of _startHealthCheck; pingTimer: the
\* transport client has a _pingTimer. It warns, and asks the client to send a
\* ping when it has one
HealthCheck(s, pingTimer) ==
    LET s1 == [s EXCEPT !.fired = "healthCheck"]
    IN  IF s1.client = 0 \/ ~s1.connected
        THEN Returned(_stopHealthCheck(s1), "healthCheck", "returned", "stopped")
        ELSE IF Inactive(s1)
        THEN Returned(s1, "healthCheck", "returned",
                      IF pingTimer THEN "pingreq" ELSE "warned")
        ELSE Returned(s1, "healthCheck", "returned", "active")

\* 'packetreceive' with a pingresp
OnPingResp(s) == [s EXCEPT !.lastActivity = s.now]

\* this.reconnectTimer: set is whether the field holds a timer id, pending
\* whether that timer has neither fired nor been cleared
NoTimer == [set |-> FALSE, pending |-> FALSE, delay |-> 0]

\* a mutant: the delay is not capped
BackoffDelayUncapped(attempts) ==
    reconnectDelay * Pow(BackoffNum, attempts)
        * Pow(BackoffDen, maxConnectionAttempts - attempts)

\* Math.min(this.reconnectDelay * Math.pow(this.reconnectBackoffFactor, attempts), 30000)
BackoffDelay(attempts) ==
    Min(reconnectDelay * Pow(BackoffNum, attempts)
            * Pow(BackoffDen, maxConnectionAttempts - attempts),
        MaxReconnectDelay * DelayUnit)

\* a mutant: the attempt count is not checked
ScheduleReconnectUnbounded(s) ==
    LET n == Min(s.connectionAttempts, maxConnectionAttempts)
        delay == BackoffDelay(n)
    IN  [s EXCEPT !.reconnectTimer = [set |-> TRUE, pending |-> TRUE, delay |-> delay],
                  !.scheduled = TRUE,
                  !.lastDelay = <<@[2], [attempt |-> n, delay |-> delay]>>]

_scheduleReconnect(s) ==
    LET cleared == [s EXCEPT !.reconnectTimer = NoTimer]
    IN  IF s.connectionAttempts >= maxConnectionAttempts
        THEN _triggerEvent(cleared, "max_reconnect_attempts")
        ELSE LET delay == BackoffDelay(s.connectionAttempts)
             IN  [cleared EXCEPT
                    !.reconnectTimer = [set |-> TRUE, pending |-> TRUE, delay |-> delay],
                    !.scheduled = TRUE,
                    !.lastDelay = <<@[2], [attempt |-> s.connectionAttempts,
                                           delay |-> delay]>>]

_handleError(s) ==
    LET s1 == _triggerEvent(s, "error")
    IN  IF /\ s1.autoReconnect
           /\ ~s1.reconnecting
           /\ s1.connectionAttempts < maxConnectionAttempts
           /\ (s1.client = 0 \/ ~s1.connected)
        THEN _scheduleReconnect(s1)
        ELSE s1

(***************************************************************************)
(* disconnect                                                              *)
(***************************************************************************)
\* the continuation of Promise.allSettled(unsubscribePromises) in disconnect():
\* it acts on this.client as it is when it runs, and throws on null before it
\* changes anything; the promise of then() has no handler, so the throw is an
\* unhandled rejection
DisconnectCleanup(s) ==
    IF s.client = 0 THEN [s EXCEPT !.events = @ \cup {"unhandledrejection"}]
    ELSE _triggerEvent(
            [s EXCEPT !.sessions[s.client].ended = TRUE,
                      !.client = 0,
                      !.connected = FALSE,
                      !.reconnecting = FALSE],
            "disconnect")

\* the synchronous part of disconnect(); the continuation is due at the end of
\* the running handler when no unsubscribe is left to wait for, else when the
\* last unsubscribe of the group is called back
disconnect(s) ==
    IF s.client = 0 THEN s
    ELSE LET s1 == IF s.connected /\ s.currentDeviceId # NoDevice
                   THEN _publishDeviceStatus(s, "offline") ELSE s
             s2 == [_stopHealthCheck(s1) EXCEPT !.reconnectTimer = NoTimer]
             group == CHOOSE g \in 1..(Len(s.ops) + 1) :
                          \A i \in 1..Len(s.ops) : s.ops[i].group # g
             s3 == UnsubscribeAll(s2, SetToSeq(DOMAIN s2.subscriptions), group)
         IN  IF \E i \in 1..Len(s3.ops) : s3.ops[i].group = group
             THEN s3
             ELSE [s3 EXCEPT !.cleanupDue = TRUE]

\* destroy(); this.messageQueue = [] leaves a running _processMessageQueue on
\* the array it iterates
destroy(s) ==
    LET s1 == [_stopHealthCheck([s EXCEPT !.autoReconnect = FALSE])
                  EXCEPT !.reconnectTimer = NoTimer]
        s2 == disconnect(s1)
    IN  [s2 EXCEPT !.eventCallbacks = <<>>,
                   !.subscriptions = Empty,
                   !.messageHandlers = Empty,
                   !.globalHandlers = <<>>,
                   !.flushes = [j \in 1..Len(@) |->
                                   IF @[j].attached
                                   THEN [@[j] EXCEPT !.attached = FALSE,
                                                     !.arr = s2.messageQueue]
                                   ELSE @[j]],
                   !.messageQueue = <<>>,
                   !.stats = [messagesSent |-> 0, bytesSent |-> 0]]

\* the end of a step: the microtasks that are due run, and transport clients
\* that have ended and hold no timer are forgotten
Finish(s) ==
    LET s1 == IF s.cleanupDue THEN DisconnectCleanup(s) ELSE s
        gone == {c \in DOMAIN s1.sessions :
                    s1.sessions[c].phase = "ended" /\ ~s1.sessions[c].timeout}
    IN  [s1 EXCEPT !.cleanupDue = FALSE,
                   !.sessions = [c \in DOMAIN @ \ gone |-> @[c]]]


(***************************************************************************)
(* connect                                                                 *)
(***************************************************************************)
\* resolve / reject of the promise connect() returned for transport client c;
\* a promise settles once, and the reconnect timer's callback has a catch that
\* resets this.reconnecting
ResolveConnect(s, c) ==
    IF s.sessions[c].promise # "pending" THEN s
    ELSE Returned([s EXCEPT !.sessions[c].promise = "resolved"],
                  "connect", "resolved", "true")

RejectConnect(s, c, error) ==
    IF s.sessions[c].promise # "pending" THEN s
    ELSE Returned([s EXCEPT !.sessions[c].promise = "rejected",
                            !.reconnecting = IF s.sessions[c].auto THEN FALSE ELSE @],
                  "connect", "rejected", error)

\* a connect() that rejects before a transport client exists
RejectConnectEarly(s, auto, error) ==
    Returned([s EXCEPT !.reconnecting = IF auto THEN FALSE ELSE @],
             "connect", "rejected", error)

\* a mutant: the transport library is used without a look at whether it is
\* there
ConnectLibUnchecked(s, auto, lib) ==
    IF s.currentDeviceId = NoDevice
    THEN RejectConnectEarly(_handleError(s), auto,
                            "Device ID not set. Call setDeviceId() first.")
    ELSE LET s1 == IF s.client # 0 THEN disconnect(s) ELSE s
             s2 == _updateTopicsForDevice(s1)
             s3 == [s2 EXCEPT !.connectionAttempts = @ + 1]
             c == CHOOSE n \in 1..(Cardinality(DOMAIN s.sessions) + Len(s.ops) + 1) :
                      /\ n \notin DOMAIN s.sessions
                      /\ \A i \in 1..Len(s.ops) : s.ops[i].session # n
         IN  Returned(
                [s3 EXCEPT !.client = c,
                           !.sessions = Put(@, c,
                               [phase |-> "connecting", ended |-> FALSE,
                                onceConnect |-> TRUE, onceError |-> TRUE,
                                timeout |-> TRUE, promise |-> "pending",
                                auto |-> auto])],
                "connect", "pending", "none")

\* connect(); auto: called by the reconnect timer; lib: what the transport
\* library does ("undefined": it is not loaded, "throws": mqtt.connect throws,
\* "ok": mqtt.connect returns a client). With "throws" the catch block reads
\* `timeout`, which is declared inside the try block: the executor throws a
\* ReferenceError before _handleError, and the promise rejects with it.
connect(s, auto, lib) ==
    IF s.currentDeviceId = NoDevice
    THEN RejectConnectEarly(_handleError(s), auto,
                            "Device ID not set. Call setDeviceId() first.")
    ELSE IF lib = "undefined"
    THEN RejectConnectEarly(_handleError(s), auto, "MQTT.js library not loaded")
    ELSE LET s1 == IF s.client # 0 THEN disconnect(s) ELSE s
             s2 == _updateTopicsForDevice(s1)
             s3 == [s2 EXCEPT !.connectionAttempts = @ + 1]
             c == CHOOSE n \in 1..(Cardinality(DOMAIN s.sessions) + Len(s.ops) + 1) :
                      /\ n \notin DOMAIN s.sessions
                      /\ \A i \in 1..Len(s.ops) : s.ops[i].session # n
         IN  IF lib = "throws"
             THEN RejectConnectEarly(s3, auto, "ReferenceError: timeout is not defined")
             ELSE Returned(
                    [s3 EXCEPT !.client = c,
                               !.sessions = Put(@, c,
                                   [phase |-> "connecting", ended |-> FALSE,
                                    onceConnect |-> TRUE, onceError |-> TRUE,
                                    timeout |-> TRUE, promise |-> "pending",
                                    auto |-> auto])],
                    "connect", "pending", "none")

\* the once('connect') handler of connect(); console.log reads
\* this.client.options, which throws when this.client is null
OnConnect(s, c) ==
    LET s1 == [s EXCEPT !.sessions[c].timeout = FALSE,
                        !.sessions[c].onceConnect = FALSE,
                        !.connected = TRUE,
                        !.reconnecting = FALSE,
                        !.connectionAttempts = 0,
                        !.lastActivity = s.now]
    IN  IF s1.client = 0 THEN s1
        ELSE LET s2 == _subscribeDeviceTopics(_startHealthCheck(s1))
                 s3 == IF processQueueOnReconnect /\ Len(s2.messageQueue) > 0
                       THEN _processMessageQueue(s2) ELSE s2
                 s4 == _publishDeviceStatus(s3, "online")
             IN  ResolveConnect(_triggerEvent(s4, "connect"), c)

\* the once('error') handler of connect()
OnFirstError(s, c) ==
    RejectConnect(_handleError([s EXCEPT !.sessions[c].timeout = FALSE,
                                         !.sessions[c].onceError = FALSE]),
                  c, "transport error")

\* the connection timeout of connect(): it tests this.connected and ends
\* this.client, whichever transport client that is by then
OnConnectTimeout(s, c) ==
    LET s1 == [s EXCEPT !.sessions[c].timeout = FALSE]
    IN  IF s1.connected THEN s1
        ELSE LET s2 == _handleError(s1)
                 s3 == IF s2.client # 0
                       THEN [s2 EXCEPT !.sessions[s2.client].ended = TRUE]
                       ELSE s2
             IN  RejectConnect(s3, c, "Connection timeout after 10s")

(***************************************************************************)
(* _setupEventHandlers                                                     *)
(***************************************************************************)
\* a mutant: a close schedules no reconnect
OnCloseNoReconnect(s) ==
    LET s1 == _stopHealthCheck([s EXCEPT !.connected = FALSE])
    IN  _triggerEvent(_publishDeviceStatus(s1, "offline"), "disconnect")

OnClose(s) ==
    LET s1 == _stopHealthCheck([s EXCEPT !.connected = FALSE])
        s2 == _triggerEvent(_publishDeviceStatus(s1, "offline"), "disconnect")
    IN  IF s2.autoReconnect /\ ~s2.reconnecting
        THEN _scheduleReconnect(s2) ELSE s2

OnReconnect(s) == _triggerEvent([s EXCEPT !.reconnecting = TRUE], "reconnect")

OnOffline(s) == _triggerEvent([s EXCEPT !.connected = FALSE], "offline")

OnEnd(s) == _stopHealthCheck([s EXCEPT !.connected = FALSE, !.client = 0])

(***************************************************************************)
(* _handleAuthResponse                                                     *)
(***************************************************************************)
\* a mutant: a refusal leaves the token alone
HandleAuthResponseKeepsToken(s, data) ==
    IF data.success /\ data.token # NoToken
    THEN LET expiry == s.now + (IF data.expiry # 0 THEN data.expiry ELSE DefaultExpiry)
         IN  _triggerEvent(_saveAuthToken(s, data.token, expiry), "auth_success")
    ELSE _triggerEvent(s, "auth_failed")

_handleAuthResponse(s, data) ==
    IF data.success /\ data.token # NoToken
    THEN LET expiry == s.now + (IF data.expiry # 0 THEN data.expiry ELSE DefaultExpiry)
         IN  _triggerEvent(_saveAuthToken(s, data.token, expiry), "auth_success")
    ELSE _triggerEvent(_clearAuthToken(s), "auth_failed")


(***************************************************************************)
(* setDeviceId, logout, getCurrentDevice, getStatus                        *)
(***************************************************************************)
\* a mutant: only the empty identifier is refused
SetDeviceIdAcceptsBlank(s, deviceId) ==
    IF deviceId = <<>>
    THEN Returned(s, "setDeviceId", "returned", "false")
    ELSE LET oldDeviceId == s.currentDeviceId
             s1 == [s EXCEPT !.currentDeviceId = trim(deviceId)]
             s2 == IF s1.connected /\ oldDeviceId # NoDevice
                   THEN _unsubscribeDeviceTopics(s1, oldDeviceId) ELSE s1
             s3 == _updateTopicsForDevice(s2)
             s4 == IF s3.connected
                   THEN [s3 EXCEPT !.subscribeTimers = @ + 1] ELSE s3
             s5 == _loadAuthToken(s4)
         IN  Returned(_triggerEvent(s5, "device_switched"),
                      "setDeviceId", "returned", "true")

setDeviceId(s, deviceId) ==
    IF deviceId = <<>> \/ trim(deviceId) = <<>>
    THEN Returned(s, "setDeviceId", "returned", "false")
    ELSE LET oldDeviceId == s.currentDeviceId
             s1 == [s EXCEPT !.currentDeviceId = trim(deviceId)]
             s2 == IF s1.connected /\ oldDeviceId # NoDevice
                   THEN _unsubscribeDeviceTopics(s1, oldDeviceId) ELSE s1
             s3 == _updateTopicsForDevice(s2)
             s4 == IF s3.connected
                   THEN [s3 EXCEPT !.subscribeTimers = @ + 1] ELSE s3
             s5 == _loadAuthToken(s4)
         IN  Returned(_triggerEvent(s5, "device_switched"),
                      "setDeviceId", "returned", "true")

logout(s) ==
    IF s.currentDeviceId = NoDevice THEN Returned(s, "logout", "returned", "undefined")
    ELSE LET s1 == _clearAuthToken(s)
             s2 == IF s1.connected
                   THEN _unsubscribeDeviceTopics(s1, s1.currentDeviceId) ELSE s1
         IN  Returned([s2 EXCEPT !.currentDeviceId = NoDevice],
                      "logout", "returned", "undefined")

\* the value returned is hasToken
getCurrentDevice(s) ==
    LET v == _isTokenValid(s)
    IN  Returned(v.st, "getCurrentDevice", "returned", IF v.ret THEN "true" ELSE "false")

\* the value returned is authenticated; deviceInfo is built after it
getStatus(s) ==
    LET v == _isTokenValid(s)
    IN  Returned(getCurrentDevice(v.st), "getStatus", "returned",
                 IF v.ret THEN "true" ELSE "false")

(***************************************************************************)
(* sendCommand and the typed commands                                      *)
(***************************************************************************)
\* a mutant: the authentication check comes first
SendCommandAuthFirst(s, call, command, data, options) ==
    LET v == IF s.authRequired THEN _isTokenValid(s) ELSE [st |-> s, ret |-> TRUE]
    IN  IF ~v.ret
        THEN Returned(v.st, call, "rejected",
                      "Authentication required. Please authenticate first.")
        ELSE IF s.currentDeviceId = NoDevice
        THEN Returned(s, call, "rejected", "Device ID not set")
        ELSE IF s.client = 0 \/ ~s.connected
        THEN Returned(s, call, "rejected", "MQTT not connected")
        ELSE Returned(Request(v.st, "publish", v.st.TOPICS.COMMAND,
                              JSONstringify([command |-> command, data |-> data]),
                              Merge([qos |-> 1, retain |-> FALSE], options),
                              Owner("command", call, 0, NoEntry), 0),
                      call, "pending", "none")

\* a mutant: the statistics count the command when it is sent
SendCommandCountsOnSend(s, call, command, data, options) ==
    IF s.currentDeviceId = NoDevice
    THEN Returned(s, call, "rejected", "Device ID not set")
    ELSE IF s.client = 0 \/ ~s.connected
    THEN Returned(s, call, "rejected", "MQTT not connected")
    ELSE LET v == IF s.authRequired THEN _isTokenValid(s) ELSE [st |-> s, ret |-> TRUE]
             counted == [v.st EXCEPT !.stats.messagesSent = @ + 1]
         IN  IF ~v.ret
             THEN Returned(v.st, call, "rejected",
                           "Authentication required. Please authenticate first.")
             ELSE Returned(Request(counted, "publish", v.st.TOPICS.COMMAND,
                                   JSONstringify([command |-> command, data |-> data]),
                                   Merge([qos |-> 1, retain |-> FALSE], options),
                                   Owner("command", call, 0, NoEntry), 0),
                           call, "pending", "none")

\* call is the public method the promise belongs to
sendCommand(s, call, command, data, options) ==
    IF s.currentDeviceId = NoDevice
    THEN Returned(s, call, "rejected", "Device ID not set")
    ELSE IF s.client = 0 \/ ~s.connected
    THEN Returned(s, call, "rejected", "MQTT not connected")
    ELSE LET v == IF s.authRequired THEN _isTokenValid(s) ELSE [st |-> s, ret |-> TRUE]
         IN  IF ~v.ret
             THEN Returned(v.st, call, "rejected",
                           "Authentication required. Please authenticate first.")
             ELSE LET message ==
                          IF s.authRequired
                          THEN [command |-> command, data |-> data,
                                auth |-> [token |-> v.st.authToken,
                                          deviceId |-> v.st.currentDeviceId]]
                          ELSE [command |-> command, data |-> data]
                  IN  Returned(Request(v.st, "publish", v.st.TOPICS.COMMAND,
                                       JSONstringify(message),
                                       Merge([qos |-> 1, retain |-> FALSE], options),
                                       Owner("command", call, 0, NoEntry), 0),
                               call, "pending", "none")

\* the data object setAlarm builds
AlarmData(hour, minute, sound, enabled, label) ==
    [hour |-> hour, minute |-> minute, sound |-> sound,
     enable |-> IF enabled THEN 1 ELSE 0, label |-> label]

\* a mutant: the flag is sent as given, under the name of the parameter
SetAlarmRawFlag(s, hour, minute, sound, enabled, label) ==
    sendCommand(s, "setAlarm", "setAlarm",
                [hour |-> hour, minute |-> minute, sound |-> sound,
                 enabled |-> enabled, label |-> label],
                [qos |-> 1, retain |-> TRUE])

setAlarm(s, hour, minute, sound, enabled, label) ==
    sendCommand(s, "setAlarm", "setAlarm",
                AlarmData(hour, minute, sound, enabled, label),
                [qos |-> 1, retain |-> TRUE])

\* the callback of client.publish in sendCommand()
SendCommandCallback(s, op, ok) ==
    IF ~ok THEN Returned(s, op.owner.call, "rejected", "transport error")
    ELSE Returned([s EXCEPT !.stats = [@ EXCEPT !.messagesSent = @ + 1,
                                                !.bytesSent = @ + length(op.payload)],
                            !.lastActivity = s.now],
                  op.owner.call, "resolved", "true")


(***************************************************************************)
(* authenticate                                                            *)
(***************************************************************************)
\* 'auth_' + Math.random().toString(36).substr(2, 8): a fresh name per call
AuthClientIds == <<"auth_1", "auth_2", "auth_3", "auth_4">>

\* this.config.MQTT.TOPICS.AUTH_RESPONSE.replace('{clientId}', authClientId)
ResponseTopic(s, authClientId) ==
    [i \in 1..Len(s.TOPICS.AUTH_RESPONSE) |->
        IF s.TOPICS.AUTH_RESPONSE[i] = "{clientId}" THEN authClientId
        ELSE s.TOPICS.AUTH_RESPONSE[i]]

\* JSON.parse(msg.toString()): a serialized object parses back to the object,
\* any other text throws
JSONparse(payload) ==
    IF "json" \in DOMAIN payload
    THEN [ok |-> TRUE, data |-> payload.json]
    ELSE [ok |-> FALSE, data |-> payload.text]

\* resolve / reject of the promise of the a-th authenticate(): a promise
\* settles once
SettleAuth(s, a, outcome, value) ==
    IF s.auths[a].promise # "pending" THEN s
    ELSE [Returned([s EXCEPT !.auths[a].promise = outcome],
                   "authenticate", outcome, value)
             EXCEPT !.returned.args = [aid |-> a]]

\* this.client.unsubscribe(responseTopic, () => {})
AuthUnsubscribe(s, a) ==
    Request([s EXCEPT !.auths[a].unsubscribes = @ + 1],
            "unsubscribe", s.auths[a].topic, Empty, Empty,
            Owner("authUnsub", "authenticate", a, NoEntry), 0)

\* authenticate(password) up to the return of client.subscribe
authenticate(s, password) ==
    IF s.currentDeviceId = NoDevice
    THEN Returned(s, "authenticate", "rejected", "Device ID not set")
    ELSE IF password = <<>> \/ trim(password) = <<>>
    THEN Returned(s, "authenticate", "rejected", "Password is required")
    ELSE IF s.client = 0 \/ ~s.connected
    THEN Returned(s, "authenticate", "rejected", "MQTT not connected")
    ELSE LET a == Len(s.auths) + 1
             authClientId == AuthClientIds[a]
             responseTopic == ResponseTopic(s, authClientId)
             s1 == [s EXCEPT !.auths =
                       Append(@, [topic |-> responseTopic, clientId |-> authClientId,
                                  password |-> password, session |-> s.client,
                                  promise |-> "pending", timeout |-> FALSE,
                                  listener |-> 0, subscribed |-> FALSE,
                                  requested |-> FALSE,
                                  unsubscribes |-> 0])]
         IN  Returned(Request(s1, "subscribe", responseTopic, Empty, [qos |-> 1],
                              Owner("authSub", "authenticate", a, NoEntry), 0),
                      "authenticate", "pending", "none")

\* the callback of client.subscribe in authenticate(): the timeout is armed,
\* then this.client.on throws when this.client is null
AuthSubscribeCallback(s, op, ok) ==
    LET a == op.owner.fid
    IN  IF ~ok THEN SettleAuth(s, a, "rejected", "transport error")
        ELSE LET s1 == [s EXCEPT !.auths[a].subscribed = TRUE,
                                 !.auths[a].timeout = TRUE]
             IN  IF s1.client = 0 THEN s1
                 ELSE Request([s1 EXCEPT !.auths[a].listener = s1.client,
                                         !.auths[a].requested = TRUE],
                              "publish", s1.TOPICS.AUTH,
                              JSONstringify([type |-> "auth_request",
                                             deviceId |-> s1.currentDeviceId,
                                             password |-> s1.auths[a].password,
                                             clientId |-> s1.auths[a].clientId]),
                              [qos |-> 1],
                              Owner("authPublish", "authenticate", a, NoEntry), 0)

\* the callback of client.publish in authenticate(); with an error the timeout
\* is cleared, then this.client.unsubscribe throws when this.client is null
AuthPublishCallback(s, op, ok) ==
    LET a == op.owner.fid
    IN  IF ok THEN s
        ELSE LET s1 == [s EXCEPT !.auths[a].timeout = FALSE]
             IN  IF s1.client = 0 THEN s1
                 ELSE LET s2 == AuthUnsubscribe(s1, a)
                          s3 == IF s2.auths[a].listener = s2.client
                                THEN [s2 EXCEPT !.auths[a].listener = 0] ELSE s2
                      IN  SettleAuth(s3, a, "rejected", "transport error")

\* the setTimeout(..., 10000) of authenticate() fires
AuthTimeout(s, a) ==
    LET s1 == [s EXCEPT !.auths[a].timeout = FALSE, !.fired = "authenticate"]
    IN  IF s1.client = 0 THEN s1
        ELSE SettleAuth(AuthUnsubscribe(s1, a), a, "rejected", "Authentication timeout")

\* messageHandler of the a-th authenticate(), for a message on its response
\* topic; this.client.unsubscribe throws when this.client is null
AuthMessageHandler(s, a, msg) ==
    LET s1 == [s EXCEPT !.auths[a].timeout = FALSE]
    IN  IF s1.client = 0 THEN s1
        ELSE LET s2 == AuthUnsubscribe(s1, a)
                 s3 == IF s2.auths[a].listener = s2.client
                       THEN [s2 EXCEPT !.auths[a].listener = 0] ELSE s2
                 parsed == JSONparse(msg)
             IN  IF ~parsed.ok
                 THEN SettleAuth(s3, a, "rejected", "Invalid auth response")
                 ELSE IF parsed.data.success
                 THEN SettleAuth(s3, a, "resolved", "true")
                 ELSE SettleAuth(s3, a, "rejected",
                                 IF parsed.data.message # ""
                                 THEN parsed.data.message
                                 ELSE "Authentication failed")

\* _handleIncomingMessage for a topic that includes '/auth/response/': text
\* that is not JSON is kept as a string, which has no success member
_handleIncomingMessage(s, msg) ==
    LET parsed == JSONparse(msg)
    IN  _handleAuthResponse(s, IF parsed.ok THEN parsed.data
                               ELSE [success |-> FALSE, token |-> NoToken,
                                     expiry |-> 0, message |-> ""])

\* 'message' of transport client c on the response topic of the a-th
\* authenticate(): the handler of _setupEventHandlers was registered first,
\* the messageHandler of authenticate() runs after it if it is registered on c
OnAuthMessage(s, c, a, msg) ==
    LET s1 == _handleIncomingMessage(
                  [s EXCEPT !.lastActivity = s.now,
                            !.received = [aid |-> a, session |-> c, msg |-> msg,
                                          held |-> s.authToken]],
                  msg)
    IN  IF s1.auths[a].listener = c THEN AuthMessageHandler(s1, a, msg) ELSE s1

(***************************************************************************)
(* subscribe, and the registration of handlers                             *)
(***************************************************************************)
\* no handler: the default of subscribe's third parameter
NoHandler == [id |-> 0, throws |-> FALSE]

\* subscribe(topic, options, handler) for one topic: rejects when not
\* connected, else the request goes to the transport with the handler in the
\* closure of its callback
subscribe(s, topic, options, handler) ==
    IF s.client = 0 \/ ~s.connected
    THEN Returned(s, "subscribe", "rejected", "Cannot subscribe: MQTT not connected")
    ELSE Request(s, "subscribe", topic, [handler |-> handler],
                 Merge([qos |-> 0], options),
                 Owner("subscribe", "subscribe", 0, NoEntry), 0)

\* the callback of this.client.subscribe in subscribe(): the subscription is
\* recorded for the device of that moment and the handler joins the handlers
\* of the topic
SubscribeCallback(s, op, ok) ==
    IF ~ok THEN Returned(s, "subscribe", "rejected", "transport error")
    ELSE LET s1 == [s EXCEPT !.subscriptions =
                        Put(@, op.topic, [qos |-> op.options.qos,
                                          deviceId |-> s.currentDeviceId])]
             s2 == IF op.payload.handler = NoHandler THEN s1
                   ELSE [s1 EXCEPT !.messageHandlers =
                            Put(@, op.topic,
                                Append(Get(@, op.topic, <<>>), op.payload.handler))]
         IN  Returned(s2, "subscribe", "resolved", "true")

\* addMessageHandler(handler)
addMessageHandler(s, handler) == [s EXCEPT !.globalHandlers = Append(@, handler)]

\* removeMessageHandler(handler): the first occurrence leaves the array
removeMessageHandler(s, handler) ==
    IF \E i \in 1..Len(s.globalHandlers) : s.globalHandlers[i] = handler
    THEN [s EXCEPT !.globalHandlers =
             RemoveAt(@, CHOOSE i \in 1..Len(@) :
                             /\ @[i] = handler
                             /\ \A j \in 1..(i - 1) : @[j] # handler)]
    ELSE s

\* the events of this.eventCallbacks
EventNames == {"connect", "disconnect", "error", "message", "reconnect",
               "max_reconnect_attempts", "offline", "publish", "device_connected",
               "device_disconnected", "auth_success", "auth_failed",
               "device_switched"}

\* on(event, callback): an event the object does not know is ignored; of the
\* callbacks, those of 'message' are kept
on(s, event, callback) ==
    IF event \in EventNames /\ event = "message"
    THEN [s EXCEPT !.eventCallbacks = Append(@, callback)]
    ELSE s

(***************************************************************************)
(* Callbacks of the transport                                              *)
(***************************************************************************)
\* the callback of request i runs, without error (ok) or with one; when it
\* settles the last unsubscribe a disconnect() waits for, the continuation of
\* that disconnect() is due
TransportCallback(s, i, ok) ==
    LET op == s.ops[i]
        kind == op.owner.kind
        s0 == [s EXCEPT !.ops = RemoveAt(@, i)]
        s1 == CASE kind = "call" ->
                     IF ok
                     THEN Returned(PublishCallback(s0, op), "publish", "resolved", "true")
                     ELSE Returned(s0, "publish", "rejected", "transport error")
                 [] kind = "status" ->
                     IF ok THEN PublishCallback(s0, op) ELSE s0
                 [] kind = "flush" ->
                     LET j == FlushIndex(s0, op.owner.fid)
                     IN  IF ok
                         THEN [PublishCallback(s0, op)
                                  EXCEPT !.flushes[j].pc = "delay",
                                         !.deliveredIds = @ \cup {op.owner.entry.id}]
                         ELSE [FlushCatch(s0, op.owner.fid, op.owner.entry)
                                  EXCEPT !.flushes[j].pc = "delay"]
                 [] kind = "command" -> SendCommandCallback(s0, op, ok)
                 [] kind = "deviceSub" ->
                     IF ok
                     THEN [s0 EXCEPT !.subscriptions =
                              Put(@, op.topic, [qos |-> op.options.qos,
                                                deviceId |-> s0.currentDeviceId])]
                     ELSE s0
                 [] kind = "deviceUnsub" ->
                     IF ok THEN [s0 EXCEPT !.subscriptions = Delete(@, op.topic),
                                           !.messageHandlers = Delete(@, op.topic)]
                     ELSE s0
                 [] kind = "subscribe" -> SubscribeCallback(s0, op, ok)
                 [] kind = "authSub" -> AuthSubscribeCallback(s0, op, ok)
                 [] kind = "authPublish" -> AuthPublishCallback(s0, op, ok)
                 [] kind = "authUnsub" ->
                     IF ok THEN [s0 EXCEPT !.auths[op.owner.fid].subscribed = FALSE]
                     ELSE s0
                 [] OTHER ->
                     IF ok
                     THEN Returned([s0 EXCEPT !.subscriptions = Delete(@, op.topic),
                                              !.messageHandlers = Delete(@, op.topic)],
                                   "unsubscribe", "resolved", "true")
                     ELSE Returned(s0, "unsubscribe", "rejected", "transport error")
    IN  IF op.group # 0 /\ \A j \in 1..Len(s1.ops) : s1.ops[j].group # op.group
        THEN [s1 EXCEPT !.cleanupDue = TRUE]
        ELSE s1

\* _getClientIP has answered for the i-th waiting _publishDeviceStatus
StatusContinuation(s, i) ==
    PublishDeviceStatusResume([s EXCEPT !.statusTasks = RemoveAt(@, i)], s.statusTasks[i])

\* the setTimeout(..., 500) of setDeviceId fires
SubscribeTimeout(s) ==
    _subscribeDeviceTopics([s EXCEPT !.subscribeTimers = @ - 1])

\* the timer of _scheduleReconnect fires; the catch of the connect() promise
\* runs in the same turn when connect() rejects at once
ReconnectTimeout(s, lib) ==
    connect([s EXCEPT !.reconnectTimer.pending = FALSE, !.reconnecting = TRUE],
            TRUE, lib)

(***************************************************************************)
(* Bounds of the model                                                     *)
(***************************************************************************)
\* transport requests waiting for their callback
MaxInFlight == 4
\* transport clients alive, status publications waiting, queue runs in
\* progress, subscribe timers pending: at most this many of each
MaxTasks == 2
\* acknowledged messages counted in stats
MaxSent == 1
\* queue entries ever created
MaxEnqueued == maxConnectionAttempts + 2
\* queue entries created before the application stops publishing offline
MaxOffline == maxQueueSize + 1
\* authenticate() calls that get as far as the transport
MaxAuths == 2
\* handlers registered for one topic, for all topics, or for one event
MaxHandlers == 2

Bounded(s) ==
    /\ Len(s.ops) <= MaxInFlight
    /\ Cardinality(DOMAIN s.sessions) <= MaxTasks
    /\ Len(s.statusTasks) <= MaxTasks
    /\ Len(s.flushes) <= MaxTasks
    /\ s.subscribeTimers <= MaxTasks
    /\ Len(s.auths) <= MaxAuths
    /\ Len(s.globalHandlers) <= MaxHandlers
    /\ Len(s.eventCallbacks) <= MaxHandlers
    /\ \A t \in DOMAIN s.messageHandlers : Len(s.messageHandlers[t]) <= MaxHandlers
    /\ s.stats.messagesSent <= MaxSent
    /\ s.nextId <= MaxEnqueued
    /\ s.connectionAttempts <= maxConnectionAttempts + 1
    /\ s.now <= MaxTime

\* a handler has run to its end in state s
Step(s) ==
    LET r == Finish(s)
    IN  Bounded(r) /\ Commit(r)


(***************************************************************************)
(* The state after construction                                            *)
(***************************************************************************)
NoDelay == [attempt |-> 0, delay |-> 0]
NoFirst == [id |-> NoDevice, topics |-> DefaultTopics, others |-> FALSE]

Init ==
    /\ currentDeviceId = NoDevice
    /\ TOPICS = DefaultTopics
    /\ authToken = NoToken
    /\ tokenExpiry = NoExpiry
    /\ authRequired = TRUE
    /\ authTokens = Empty
    /\ sessionExpiries = Empty
    /\ lastDeviceId = NoDevice
    /\ now = 0
    /\ client = 0
    /\ connected = FALSE
    /\ reconnecting = FALSE
    /\ connectionAttempts = 0
    /\ autoReconnect = TRUE
    /\ reconnectTimer = NoTimer
    /\ healthCheckInterval = FALSE
    /\ subscriptions = Empty
    /\ messageQueue = <<>>
    /\ stats = [messagesSent |-> 0, bytesSent |-> 0]
    /\ sessions = Empty
    /\ ops = <<>>
    /\ flushes = <<>>
    /\ statusTasks = <<>>
    /\ subscribeTimers = 0
    /\ lastActivity = NoActivity
    /\ auths = <<>>
    /\ messageHandlers = Empty
    /\ globalHandlers = <<>>
    /\ eventCallbacks = <<>>
    /\ availableDevices = Empty
    /\ storage = "ok"
    /\ invoked = <<>>
    /\ deliveredIds = {}
    /\ nextId = 0
    /\ tracked = 0
    /\ firstAfter = NoOwner
    /\ lastDelay = <<NoDelay, NoDelay>>
    /\ first = NoFirst
    /\ scheduled = FALSE
    /\ events = {}
    /\ received = NoMessage
    /\ fired = "none"
    /\ returned = NoReturn

(***************************************************************************)
(* Inputs                                                                  *)
(***************************************************************************)
Topics == {<<"app/topic">>}
Messages == {[text |-> "a"]}
\* the devices of the connection scenarios
DeviceIds == {KitchenClock, <<"k">>}
Tokens == {"token"}
\* the authentication responses a broker may deliver; expiry 0: none named
AuthResponses ==
    [success : BOOLEAN, token : Tokens \cup {NoToken}, expiry : {0, 1}]
Passwords == {<<>>, <<" ">>, <<"p", "w">>}
\* what the device answers to an authentication request: a JSON object, or
\* text that is not JSON
AuthReplies ==
    {JSONstringify(r) : r \in [success : BOOLEAN, token : Tokens \cup {NoToken},
                               expiry : {0, 1}, message : {"", "denied"}]}
        \cup {[text |-> "?"]}
\* a grant with a token, a refusal without one, or text that is not JSON
AuthAnswers ==
    {m \in AuthReplies :
        "json" \in DOMAIN m =>
            /\ m.json.success <=> m.json.token # NoToken
            /\ m.json.success => m.json.message = ""
            /\ ~m.json.success => (m.json.expiry = 0 /\ m.json.message = "denied")}
Hours == {7}
Minutes == {30}
Sounds == {0}
Labels == {"Wake"}
\* what loading the transport library gave, and what mqtt.connect does
Libs == {"ok", "throws", "undefined"}

(***************************************************************************)
(* Calls of the application                                                *)
(***************************************************************************)
\* setDeviceId(); first keeps the first derivation of a run, and whether
\* another device was selected after it
\* setDeviceId(); the step keeps the argument of the call
SetDeviceId(deviceId) ==
    LET s == [setDeviceId(State, deviceId) EXCEPT
                 !.returned.args = [deviceId |-> deviceId]]
    IN  Step(IF s.currentDeviceId = NoDevice THEN s
             ELSE IF first.id = NoDevice
             THEN [s EXCEPT !.first = [id |-> s.currentDeviceId, topics |-> s.TOPICS,
                                       others |-> FALSE]]
             ELSE IF s.currentDeviceId # first.id
             THEN [s EXCEPT !.first.others = TRUE]
             ELSE s)

Logout == Step(logout(State))

GetCurrentDevice == Step(getCurrentDevice(State))

GetStatus == Step(getStatus(State))

\* publish(); a message queued into an empty queue is followed up under
\* tracked and firstAfter
Publish(topic, message, options) ==
    LET r == publish(State, topic, message, options, Owner("call", "publish", 0, NoEntry))
        st == IF messageQueue = <<>> /\ r.st.messageQueue # <<>>
              THEN [r.st EXCEPT !.tracked = r.st.nextId, !.firstAfter = NoOwner]
              ELSE r.st
    IN  Step([Returned(st, "publish", r.outcome, r.value) EXCEPT
                 !.returned.args = [topic |-> topic, message |-> message,
                                    options |-> options]])

SendCommand(command, data) ==
    Step(sendCommand(State, "sendCommand", command, data, Empty))

\* setAlarm(); the step keeps the arguments of the call
SetAlarm(hour, minute, sound, enabled, label) ==
    Step([setAlarm(State, hour, minute, sound, enabled, label) EXCEPT
             !.returned.args = [hour |-> hour, minute |-> minute, sound |-> sound,
                                enabled |-> enabled, label |-> label]])

\* connect(); the step keeps what the transport library was
Connect(lib) == Step([connect(State, FALSE, lib) EXCEPT !.returned.args = [lib |-> lib]])

Disconnect == Step(Returned(disconnect(State), "disconnect", "returned", "undefined"))

Destroy == Step(Returned(destroy(State), "destroy", "returned", "undefined"))

(***************************************************************************)
(* Events of a transport client c                                          *)
(***************************************************************************)
Connecting(c) == c \in DOMAIN sessions /\ sessions[c].phase = "connecting"
Open(c) == c \in DOMAIN sessions /\ sessions[c].phase \in {"connecting", "connected"}

\* 'connect': the once handler of connect() has run at most once
EvConnect(c) ==
    /\ Connecting(c) /\ ~sessions[c].ended
    /\ LET s1 == [State EXCEPT !.sessions[c].phase = "connected"]
       IN  Step(IF sessions[c].onceConnect THEN OnConnect(s1, c) ELSE s1)

\* 'error': the on handler of _setupEventHandlers was registered first, the
\* once handler of connect() runs after it
EvError(c) ==
    /\ Open(c) /\ ~sessions[c].ended
    /\ LET s1 == _handleError(State)
       IN  Step(IF sessions[c].onceError THEN OnFirstError(s1, c) ELSE s1)

\* 'close': the stream closed, by the network or after end()
EvClose(c) ==
    /\ Open(c)
    /\ Step(OnClose([State EXCEPT !.sessions[c].phase = "closed"]))

\* 'offline'
EvOffline(c) ==
    /\ c \in DOMAIN sessions /\ sessions[c].phase = "closed" /\ ~sessions[c].ended
    /\ connected
    /\ Step(OnOffline(State))

\* 'reconnect': the transport starts a connection attempt of its own
EvReconnect(c) ==
    /\ c \in DOMAIN sessions /\ sessions[c].phase = "closed" /\ ~sessions[c].ended
    /\ Step(OnReconnect([State EXCEPT !.sessions[c].phase = "connecting"]))

\* 'end': end() has closed the client for good
EvEnd(c) ==
    /\ c \in DOMAIN sessions /\ sessions[c].phase = "closed" /\ sessions[c].ended
    /\ Step(OnEnd([State EXCEPT !.sessions[c].phase = "ended"]))

\* 'message' on the authentication response topic
EvAuthResponse(c, data) ==
    /\ c \in DOMAIN sessions /\ sessions[c].phase = "connected" /\ ~sessions[c].ended
    /\ Step(_handleAuthResponse([State EXCEPT !.lastActivity = now], data))

\* 'message' on the response topic of the a-th authenticate(): the request
\* was published and the subscription on c stands
EvAuthMessage(c, a, msg) ==
    /\ c \in DOMAIN sessions /\ sessions[c].phase = "connected" /\ ~sessions[c].ended
    /\ a \in 1..Len(auths)
    /\ auths[a].session = c /\ auths[a].subscribed /\ auths[a].requested
    /\ Step(OnAuthMessage(State, c, a, msg))

\* 'packetreceive': the broker answers a ping of the transport client
EvPingResp(c) ==
    /\ c \in DOMAIN sessions /\ sessions[c].phase = "connected" /\ ~sessions[c].ended
    /\ Step(OnPingResp(State))

ConnectTimeout(c) ==
    /\ c \in DOMAIN sessions /\ sessions[c].timeout
    /\ Step(OnConnectTimeout(State, c))

(***************************************************************************)
(* Timers and continuations                                                *)
(***************************************************************************)
Authenticate(password) == Step(authenticate(State, password))

AuthTimerFires(a) ==
    /\ a \in 1..Len(auths)
    /\ auths[a].timeout
    /\ Step(AuthTimeout(State, a))

ReconnectTimerFires(lib) ==
    /\ reconnectTimer.pending
    /\ Step([ReconnectTimeout(State, lib) EXCEPT !.fired = "reconnect",
                                                 !.returned.args = [lib |-> lib]])

HealthCheckFires(pingTimer) ==
    /\ healthCheckInterval
    /\ Step(HealthCheck(State, pingTimer))

SubscribeTimerFires ==
    /\ subscribeTimers > 0
    /\ Step(SubscribeTimeout(State))

StatusTaskContinues(i) ==
    /\ i \in 1..Len(statusTasks)
    /\ Step(StatusContinuation(State, i))

FlushDelayDone(i) ==
    /\ i \in 1..Len(flushes)
    /\ flushes[i].pc = "delay"
    /\ Step(FlushResume(State, flushes[i].fid))

\* the transport calls back; without error only while its client is connected
Ack(i, ok) ==
    /\ i \in 1..Len(ops)
    /\ ok => /\ ops[i].session \in DOMAIN sessions
             /\ sessions[ops[i].session].phase = "connected"
             /\ ~sessions[ops[i].session].ended
    /\ Step(TransportCallback(State, i, ok))

\* request i is with a transport client that is connected and was not ended
Delivered(i) ==
    /\ ops[i].session \in DOMAIN sessions
    /\ sessions[ops[i].session].phase = "connected"
    /\ ~sessions[ops[i].session].ended

Tick == Step([State EXCEPT !.now = @ + 1])

Next ==
    \/ \E deviceId \in RawDeviceIds : SetDeviceId(deviceId)
    \/ Logout
    \/ GetCurrentDevice
    \/ GetStatus
    \/ \E topic \in Topics, message \in Messages : Publish(topic, message, Empty)
    \/ \E message \in Messages : SendCommand("ping", message)
    \/ \E hour \in Hours, minute \in Minutes, sound \in Sounds, enabled \in BOOLEAN,
          label \in Labels : SetAlarm(hour, minute, sound, enabled, label)
    \/ \E lib \in Libs : Connect(lib)
    \/ Disconnect
    \/ Destroy
    \/ \E pingTimer \in BOOLEAN : HealthCheckFires(pingTimer)
    \/ \E c \in DOMAIN sessions : EvPingResp(c)
    \/ \E c \in DOMAIN sessions : EvConnect(c)
    \/ \E c \in DOMAIN sessions : EvError(c)
    \/ \E c \in DOMAIN sessions : EvClose(c)
    \/ \E c \in DOMAIN sessions : EvOffline(c)
    \/ \E c \in DOMAIN sessions : EvReconnect(c)
    \/ \E c \in DOMAIN sessions : EvEnd(c)
    \/ \E c \in DOMAIN sessions, data \in AuthResponses : EvAuthResponse(c, data)
    \/ \E c \in DOMAIN sessions : ConnectTimeout(c)
    \/ \E password \in Passwords : Authenticate(password)
    \/ \E c \in DOMAIN sessions, a \in 1..Len(auths), msg \in AuthReplies :
           EvAuthMessage(c, a, msg)
    \/ \E a \in 1..Len(auths) : AuthTimerFires(a)
    \/ \E lib \in Libs : ReconnectTimerFires(lib)
    \/ SubscribeTimerFires
    \/ \E i \in 1..Len(statusTasks) : StatusTaskContinues(i)
    \/ \E i \in 1..Len(flushes) : FlushDelayDone(i)
    \/ \E i \in 1..Len(ops), ok \in BOOLEAN : Ack(i, ok)
    \/ Tick

Spec == Init /\ [][Next]_vars


(***************************************************************************)
(* Device selection and topics                                             *)
(***************************************************************************)
NextTopics ==
    \/ \E deviceId \in RawDeviceIds : SetDeviceId(deviceId)
    \/ Logout
    \/ Tick

SpecTopics == Init /\ [][NextTopics]_vars

\* C9: the topics of the selected device are a function of the prefix and the
\* device key alone: whenever the selected device has the key of the device
\* selected first, the topics are those derived the first time, whatever was
\* selected in between
TopicsDeterministic ==
    (currentDeviceId # NoDevice /\ first.id # NoDevice
        /\ DeviceKey(currentDeviceId) = DeviceKey(first.id))
    => TOPICS = first.topics

\* A, then another device, then A again
TopicsDeterministicWitness ==
    /\ returned.call = "setDeviceId" /\ returned.value = "true"
    /\ first.others
    /\ currentDeviceId = first.id
    /\ TOPICS = first.topics
    /\ TOPICS.COMMAND = TOPIC_PREFIX \o DeviceKey(currentDeviceId) \o <<"/command">>


(***************************************************************************)
(* Session tokens                                                          *)
(***************************************************************************)
\* the application selects devices, connects once and asks for the state of
\* the session; the broker answers authentication requests and time passes
NextToken ==
    \/ \E deviceId \in DeviceIds : SetDeviceId(deviceId)
    \/ Logout
    \/ GetCurrentDevice
    \/ GetStatus
    \/ SendCommand("ping", Empty)
    \/ (currentDeviceId # NoDevice /\ client = 0 /\ Connect("ok"))
    \/ \E c \in DOMAIN sessions : EvConnect(c)
    \/ \E c \in DOMAIN sessions, data \in AuthResponses : EvAuthResponse(c, data)
    \/ Tick

SpecToken == Init /\ [][NextToken]_vars

\* the last step was a validity check of the session token
TokenChecked ==
    \/ returned.call \in {"getCurrentDevice", "getStatus"}
    \/ /\ returned.call = "sendCommand"
       /\ \/ returned.outcome = "pending"
          \/ returned.value = "Authentication required. Please authenticate first."

\* the persisted storage holds a record for the selected device that has expired
StaleInStorage ==
    /\ currentDeviceId # NoDevice
    /\ \/ currentDeviceId \in DOMAIN authTokens
       \/ currentDeviceId \in DOMAIN sessionExpiries
    /\ Get(sessionExpiries, currentDeviceId, 0) <= now

\* C7: a token is presented as valid only before its expiry (by getStatus,
\* getCurrentDevice and the check of sendCommand), a validity check leaves no
\* expired token behind for the selected device, in memory or in storage, and
\* loading after the expiry yields no token
ExpiredTokenNeverValid ==
    /\ (returned.call \in {"getCurrentDevice", "getStatus"} /\ returned.value = "true")
           => (authToken # NoToken /\ now < tokenExpiry)
    /\ (returned.call = "sendCommand" /\ returned.outcome = "pending")
           => (authToken # NoToken /\ now < tokenExpiry)
    /\ TokenChecked => (~StaleInStorage /\ (authToken = NoToken \/ now < tokenExpiry))
    /\ (returned.call = "setDeviceId" /\ returned.value = "true")
           => (authToken = NoToken \/ now < tokenExpiry)

\* C8: after a load for a device (setDeviceId), the persisted storage holds no
\* expired token or expiry record for that device
StaleTokenRemovedOnLoad ==
    (returned.call = "setDeviceId" /\ returned.value = "true") => ~StaleInStorage

(***************************************************************************)
(* Commands and authentication                                             *)
(***************************************************************************)
\* a token that lasts one unit of time, or a refusal
GrantOrRefusal ==
    {r \in AuthResponses : r.expiry = 1 /\ (r.success <=> r.token # NoToken)}

\* the application selects a device while disconnected, connects once and
\* sends commands; the broker answers authentication requests and calls back
\* in the order of the requests
NextCommand ==
    \/ (~connected /\ SetDeviceId(KitchenClock))
    \/ (~connected /\ Logout)
    \/ SendCommand("ping", Empty)
    \/ \E hour \in Hours, minute \in Minutes, sound \in Sounds, enabled \in BOOLEAN,
          label \in Labels : SetAlarm(hour, minute, sound, enabled, label)
    \/ (currentDeviceId # NoDevice /\ client = 0 /\ Connect("ok"))
    \/ \E c \in DOMAIN sessions : EvConnect(c)
    \/ \E c \in DOMAIN sessions, data \in GrantOrRefusal : EvAuthResponse(c, data)
    \/ StatusTaskContinues(1)
    \/ \E ok \in BOOLEAN : Ack(1, ok)
    \/ Tick

SpecCommand == Init /\ [][NextCommand]_vars


\* the step is a call of the given method (a callback of the transport takes a
\* request away instead)
Called(call) == returned'.call = call /\ Len(ops') >= Len(ops)

\* the session token is there and has not expired
TokenValid == authToken # NoToken /\ tokenExpiry # NoExpiry /\ now < tokenExpiry

\* C3, as the claim has it: sendCommand for a selected device while
\* disconnected, with authentication mandated and no token, rejects with the
\* authentication error and creates no queue entry
DisconnectedCommandNeedsAuth ==
    [][(Called("sendCommand") /\ currentDeviceId # NoDevice
            /\ ~connected /\ authRequired /\ authToken = NoToken)
        => /\ returned'.outcome = "rejected"
           /\ returned'.value = "Authentication required. Please authenticate first."
           /\ messageQueue' = messageQueue]_vars

\* C3, amended: sendCommand while disconnected, with authentication mandated
\* and no token, rejects with the configuration error when no device is
\* selected and with the not-connected error otherwise; it creates no queue
\* entry and hands nothing to the transport
DisconnectedCommandNotConnected ==
    [][(Called("sendCommand") /\ ~connected /\ authRequired /\ authToken = NoToken)
        => /\ returned'.outcome = "rejected"
           /\ returned'.value = IF currentDeviceId = NoDevice
                                THEN "Device ID not set" ELSE "MQTT not connected"
           /\ messageQueue' = messageQueue
           /\ nextId' = nextId
           /\ ops' = ops]_vars

DisconnectedCommandWitness ==
    /\ returned.call = "sendCommand"
    /\ returned.value = "MQTT not connected"
    /\ currentDeviceId # NoDevice
    /\ ~connected /\ authRequired /\ authToken = NoToken
    /\ messageQueue = <<>>

\* C4: sendCommand rejects with the configuration error without a device, with
\* the not-connected error with a device and no established connection, and
\* with the authentication error when connected without a valid token; a
\* rejected call hands nothing to the transport and leaves the statistics, which
\* change only in a callback of the transport
CommandRejections ==
    [][/\ (Called("sendCommand") \/ Called("setAlarm")) =>
            /\ currentDeviceId = NoDevice =>
                   (returned'.outcome = "rejected" /\ returned'.value = "Device ID not set")
            /\ (currentDeviceId # NoDevice /\ (client = 0 \/ ~connected)) =>
                   (returned'.outcome = "rejected" /\ returned'.value = "MQTT not connected")
            /\ (currentDeviceId # NoDevice /\ client # 0 /\ connected
                    /\ authRequired /\ ~TokenValid) =>
                   (/\ returned'.outcome = "rejected"
                    /\ returned'.value = "Authentication required. Please authenticate first.")
            /\ returned'.outcome = "rejected" => (ops' = ops /\ stats' = stats)
       /\ stats' # stats =>
            /\ Len(ops') = Len(ops) - 1
            /\ returned'.outcome \in {"resolved", "none"}]_vars

\* a command was acknowledged and counted, and the next one is rejected for
\* want of a valid token
CommandRejectionsWitness ==
    /\ returned.call = "sendCommand"
    /\ returned.value = "Authentication required. Please authenticate first."
    /\ connected /\ client # 0
    /\ stats.messagesSent = 1


\* C10: with "Kitchen Clock" selected, a connection established and a valid
\* token, setAlarm(hour, minute, sound, enabled, label) hands exactly one
\* request to the transport: a publish on smartclock/kitchen_clock/command of
\* the command setAlarm with data {hour, minute, sound, enable, label}, where
\* enable is 1 for enabled and 0 otherwise
SetAlarmEnvelope ==
    [][(Called("setAlarm") /\ currentDeviceId = KitchenClock
            /\ client # 0 /\ connected /\ TokenValid)
        => LET a == returned'.args
               sent == ops'[Len(ops')]
           IN  /\ returned'.outcome = "pending"
               /\ Len(ops') = Len(ops) + 1
               /\ SubSeq(ops', 1, Len(ops)) = ops
               /\ sent.kind = "publish"
               /\ sent.session = client
               /\ sent.topic = TOPIC_PREFIX \o KitchenClockKey \o <<"/command">>
               /\ sent.topic = TOPICS.COMMAND
               /\ sent.payload.json.command = "setAlarm"
               /\ sent.payload.json.data =
                      [hour |-> a.hour, minute |-> a.minute, sound |-> a.sound,
                       enable |-> IF a.enabled THEN 1 ELSE 0, label |-> a.label]
               /\ messageQueue' = messageQueue]_vars

\* setAlarm(7, 30, 0, true, "Wake") has been sent for "Kitchen Clock"
SetAlarmEnvelopeWitness ==
    /\ returned.call = "setAlarm" /\ returned.outcome = "pending"
    /\ currentDeviceId = KitchenClock
    /\ ops # <<>>
    /\ ops[Len(ops)].topic = TOPIC_PREFIX \o KitchenClockKey \o <<"/command">>
    /\ ops[Len(ops)].payload.json.data =
           [hour |-> 7, minute |-> 30, sound |-> 0, enable |-> 1, label |-> "Wake"]


(***************************************************************************)
(* The offline queue                                                       *)
(***************************************************************************)
\* the application selects a device, publishes while disconnected, connects
\* and disconnects; the transport connects and calls back in the order of the
\* requests, without error for a request that reached a connected client
NextQueue ==
    \/ (currentDeviceId = NoDevice /\ SetDeviceId(KitchenClock))
    \/ (~connected /\ nextId < MaxOffline
            /\ \E topic \in Topics, message \in Messages :
                   Publish(topic, message, Empty))
    \/ (currentDeviceId # NoDevice /\ client = 0 /\ Connect("ok"))
    \/ (connected /\ Disconnect)
    \/ \E c \in DOMAIN sessions : EvConnect(c)
    \/ (ops # <<>> /\ Ack(1, Delivered(1)))
    \/ \E i \in 1..Len(flushes) : FlushDelayDone(i)
    \/ StatusTaskContinues(1)

SpecQueue == Init /\ [][NextQueue]_vars

\* the entry a publish call makes of its arguments
Queued(args, id, time) ==
    [id |-> id, topic |-> args.topic, message |-> args.message,
     options |-> args.options, timestamp |-> time, attempts |-> 0]

\* C1: the offline queue never holds more than maxQueueSize entries, and a
\* publish call made while disconnected appends its message, after dropping the
\* oldest entry when the queue is full: the other entries stay, in their order
QueueBounded ==
    [][/\ Len(messageQueue') <= maxQueueSize
       /\ (Called("publish") /\ ~connected) =>
            messageQueue' =
                Append(IF Len(messageQueue) >= maxQueueSize
                       THEN Tail(messageQueue) ELSE messageQueue,
                       Queued(returned'.args, nextId + 1, now))]_vars

\* maxQueueSize + 1 messages were published while disconnected: the first is
\* gone, the others are queued in the order of the calls
QueueBoundedWitness ==
    /\ returned.call = "publish" /\ returned.outcome = "resolved"
    /\ nextId = maxQueueSize + 1
    /\ Len(messageQueue) = maxQueueSize
    /\ \A i \in 1..maxQueueSize : messageQueue[i].id = i + 1

\* the message followed up is still to be handed to the transport, and fewer
\* than maxQueueSize messages were queued after it
Waiting == tracked # 0 /\ firstAfter = NoOwner /\ nextId - tracked < maxQueueSize

\* C2: a publish call made while disconnected with an empty queue resolves
\* true, hands nothing to the transport and puts the message at the head of
\* the queue; the message stays at the head until a publish is handed to the
\* transport, and the connect that succeeds next hands that message to the
\* transport before any other publish
QueuedMessageFlushedFirst ==
    [][/\ (Called("publish") /\ ~connected /\ messageQueue = <<>>) =>
            /\ returned'.outcome = "resolved" /\ returned'.value = "true"
            /\ ops' = ops
            /\ messageQueue' = <<Queued(returned'.args, nextId + 1, now)>>
            /\ tracked' = nextId + 1
       /\ Waiting' => (messageQueue' # <<>> /\ Head(messageQueue').id = tracked')
       /\ (Waiting /\ returned'.call = "connect" /\ returned'.outcome = "resolved") =>
            (firstAfter'.kind = "flush" /\ firstAfter'.entry.id = tracked)]_vars


(***************************************************************************)
(* Reconnection                                                            *)
(***************************************************************************)
\* the application selects a device and calls connect() when there is no
\* transport client; the broker cannot be reached: transport clients report
\* errors, close and end, connection timeouts and reconnect timers fire
NextConn ==
    \/ (currentDeviceId = NoDevice /\ SetDeviceId(KitchenClock))
    \/ (client = 0 /\ Connect("ok"))
    \/ ReconnectTimerFires("ok")
    \/ \E c \in DOMAIN sessions : EvError(c)
    \/ \E c \in DOMAIN sessions : EvClose(c)
    \/ \E c \in DOMAIN sessions : EvEnd(c)
    \/ \E c \in DOMAIN sessions : ConnectTimeout(c)
    \/ StatusTaskContinues(1)

SpecConn == Init /\ [][NextConn]_vars

\* min(2000 * 1.5^attempt, 30000) ms, in units of 1 / DelayUnit ms
CappedBackoff(attempt) ==
    LET exact == reconnectDelay * Pow(BackoffNum, attempt)
                    * Pow(BackoffDen, maxConnectionAttempts - attempt)
    IN  IF exact <= MaxReconnectDelay * DelayUnit THEN exact
        ELSE MaxReconnectDelay * DelayUnit

\* C5: every delay a reconnect is scheduled with is min(2000 * 1.5^attempt,
\* 30000) ms for the attempt counter of the moment, which is below
\* maxConnectionAttempts; it never exceeds 30000 ms, and of two delays computed
\* one after the other the one for the higher counter is not the smaller
BackoffNonDecreasing ==
    /\ reconnectTimer.set => reconnectTimer.delay = lastDelay[2].delay
    /\ \A i \in 1..2 :
          lastDelay[i] # NoDelay =>
              /\ lastDelay[i].attempt \in 0..(maxConnectionAttempts - 1)
              /\ lastDelay[i].delay = CappedBackoff(lastDelay[i].attempt)
              /\ lastDelay[i].delay <= MaxReconnectDelay * DelayUnit
    /\ (lastDelay[1] # NoDelay /\ lastDelay[1].attempt <= lastDelay[2].attempt)
           => lastDelay[1].delay <= lastDelay[2].delay

\* a delay below the cap is followed by the capped delay of the next attempt
BackoffNonDecreasingWitness ==
    /\ reconnectTimer.pending
    /\ lastDelay[2].attempt = lastDelay[1].attempt + 1
    /\ lastDelay[1].delay < lastDelay[2].delay
    /\ lastDelay[2].delay = MaxReconnectDelay * DelayUnit
    /\ reconnectTimer.delay = lastDelay[2].delay

\* the step is the 'close' event of a transport client
Closes ==
    \E c \in DOMAIN sessions \cap DOMAIN sessions' :
        sessions[c].phase # "closed" /\ sessions'[c].phase = "closed"

\* C6: a reconnect is scheduled only while the attempt counter is below
\* maxConnectionAttempts; at the maximum a close event raises
\* max_reconnect_attempts, leaves no timer and rejects nothing, and an error
\* event schedules nothing
NoReconnectAfterMax ==
    [][/\ scheduled' => /\ connectionAttempts' < maxConnectionAttempts
                        /\ "max_reconnect_attempts" \notin events'
       /\ connectionAttempts >= maxConnectionAttempts =>
              (reconnectTimer'.pending => reconnectTimer' = reconnectTimer)
       /\ "max_reconnect_attempts" \in events' =>
              /\ connectionAttempts' >= maxConnectionAttempts
              /\ reconnectTimer' = NoTimer
              /\ returned'.outcome # "rejected"
       /\ (Closes /\ autoReconnect /\ ~reconnecting
               /\ connectionAttempts >= maxConnectionAttempts) =>
              "max_reconnect_attempts" \in events']_vars

\* the connection closed after the last attempt allowed
NoReconnectAfterMaxWitness ==
    /\ "max_reconnect_attempts" \in events
    /\ connectionAttempts = maxConnectionAttempts
    /\ reconnectTimer = NoTimer
    /\ ~scheduled


(***************************************************************************)
(* Authentication                                                          *)
(***************************************************************************)
\* the application selects a device, connects once, authenticates (one call
\* after the other), asks for the state of the session and disconnects while
\* its first authentication is pending; the device answers or stays silent, the
\* transport calls back in the order of the requests, with an error only for a
\* request of authenticate(), and time passes while a token is held
NextAuth ==
    \/ (currentDeviceId = NoDevice /\ SetDeviceId(KitchenClock))
    \/ (currentDeviceId # NoDevice /\ client = 0 /\ lastActivity = NoActivity
            /\ Connect("ok"))
    \/ \E c \in DOMAIN sessions : EvConnect(c)
    \/ ((\A a \in 1..Len(auths) : auths[a].promise # "pending")
            /\ \E password \in Passwords : Authenticate(password))
    \/ \E c \in DOMAIN sessions, a \in 1..Len(auths), msg \in AuthAnswers :
           EvAuthMessage(c, a, msg)
    \/ \E a \in 1..Len(auths) : AuthTimerFires(a)
    \/ GetCurrentDevice
    \/ (connected /\ Len(auths) = 1 /\ auths[1].promise = "pending"
            /\ Disconnect)
    \/ StatusTaskContinues(1)
    \/ (ops # <<>> /\ Ack(1, TRUE))
    \/ (ops # <<>> /\ ops[1].owner.call = "authenticate" /\ Ack(1, FALSE))
    \/ (authToken # NoToken /\ Tick)

SpecAuth == Init /\ [][NextAuth]_vars

\* the message the step delivered is a JSON object that refuses / grants
Refused == received'.aid # 0 /\ "json" \in DOMAIN received'.msg
               /\ ~received'.msg.json.success
Granted == received'.aid # 0 /\ "json" \in DOMAIN received'.msg
               /\ received'.msg.json.success /\ received'.msg.json.token # NoToken

\* the authenticate() the message answers is still waiting for it
Awaited == auths[received'.aid].promise = "pending" /\ auths[received'.aid].timeout

\* C11: a response {success: false, message: M} that arrives while the
\* timeout of authenticate() is pending rejects the promise with M, and it
\* leaves no token for the selected device in memory or in storage
AuthFailureRejects ==
    [][Refused =>
          /\ authToken' = NoToken /\ tokenExpiry' = NoExpiry
          /\ currentDeviceId \notin DOMAIN authTokens'
          /\ currentDeviceId \notin DOMAIN sessionExpiries'
          /\ Awaited =>
                /\ returned'.call = "authenticate"
                /\ returned'.outcome = "rejected"
                /\ returned'.value = received'.msg.json.message
                /\ returned'.args = [aid |-> received'.aid]
                /\ auths'[received'.aid].promise = "rejected"]_vars

\* a second authenticate() is refused while the token of the first is held
AuthFailureRejectsWitness ==
    /\ received.aid = 2 /\ "json" \in DOMAIN received.msg
    /\ ~received.msg.json.success
    /\ received.held # NoToken
    /\ returned.call = "authenticate" /\ returned.outcome = "rejected"
    /\ returned.value = "denied"
    /\ authToken = NoToken /\ authTokens = Empty /\ sessionExpiries = Empty

\* C12: when the timeout of authenticate() fires, the promise (if it is still
\* pending) rejects with 'Authentication timeout', and no expired token is
\* left for the selected device in memory or in storage
AuthTimeoutClearsToken ==
    [][fired' = "authenticate" =>
          /\ \A a \in 1..Len(auths) :
                (auths[a].timeout /\ ~auths'[a].timeout /\ auths[a].promise = "pending")
                    => /\ returned'.call = "authenticate"
                       /\ returned'.outcome = "rejected"
                       /\ returned'.value = "Authentication timeout"
          /\ authToken' = NoToken \/ now' < tokenExpiry'
          /\ ~StaleInStorage']_vars

\* C13: a response {success: true, token, expiry} stores the token for the
\* selected device, in memory and in storage, with the expiry now + expiry
\* (now + DefaultExpiry when the response names none), and resolves the
\* promise of the authenticate() that waits for it; from then on the token
\* stays as it is while no other response arrives and its expiry has not come,
\* and getCurrentDevice reports a token exactly while one is held and has not
\* expired
AuthSuccessPersists ==
    [][/\ Granted =>
            LET data == received'.msg.json
                expiry == now + (IF data.expiry # 0 THEN data.expiry ELSE DefaultExpiry)
            IN  /\ authToken' = data.token /\ tokenExpiry' = expiry
                /\ Get(authTokens', currentDeviceId, NoToken) = data.token
                /\ Get(sessionExpiries', currentDeviceId, NoExpiry) = expiry
                /\ "auth_success" \in events'
                /\ Awaited => /\ returned'.call = "authenticate"
                              /\ returned'.outcome = "resolved"
                              /\ returned'.value = "true"
       /\ (authToken # NoToken /\ received'.aid = 0 /\ now' < tokenExpiry) =>
            /\ authToken' = authToken /\ tokenExpiry' = tokenExpiry
            /\ authTokens' = authTokens /\ sessionExpiries' = sessionExpiries
       /\ returned'.call = "getCurrentDevice" =>
            (returned'.value = "true" <=> (authToken # NoToken /\ now < tokenExpiry))
      ]_vars

\* a token granted at time 0 without an expiry is reported at time 1
AuthSuccessPersistsWitness ==
    /\ returned.call = "getCurrentDevice" /\ returned.value = "true"
    /\ now = 1
    /\ Len(auths) = 1 /\ auths[1].promise = "resolved"
    /\ authToken = "token" /\ tokenExpiry = DefaultExpiry
    /\ Get(authTokens, currentDeviceId, NoToken) = "token"
    /\ Get(sessionExpiries, currentDeviceId, NoExpiry) = DefaultExpiry

\* C14: an authenticate() whose promise has settled has no message listener
\* left on a transport client, and an unsubscribe was issued for its response
\* topic if the subscription was made
AuthTornDown ==
    \A a \in 1..Len(auths) :
        auths[a].promise # "pending" =>
            /\ auths[a].listener = 0
            /\ auths[a].subscribed => auths[a].unsubscribes > 0


(***************************************************************************)
(* Starting a connection                                                   *)
(***************************************************************************)
\* the application selects a device and logs out, and calls connect() with
\* and without a device, with and without the transport library; the broker
\* does not answer, and the reconnect timer calls connect() too
NextStart ==
    \/ (currentDeviceId = NoDevice /\ SetDeviceId(KitchenClock))
    \/ (client = 0 /\ Logout)
    \/ (client = 0 /\ \E lib \in Libs : Connect(lib))
    \/ \E lib \in Libs : ReconnectTimerFires(lib)
    \/ \E c \in DOMAIN sessions : ConnectTimeout(c)

SpecStart == Init /\ [][NextStart]_vars

\* the step is a call of connect(), by the application or by the reconnect
\* timer
ConnectCalled == returned'.call = "connect" /\ "lib" \in DOMAIN returned'.args

\* C15: connect() without a selected device rejects with 'Device ID not set.
\* Call setDeviceId() first.', connect() with a device and without the
\* transport library rejects with 'MQTT.js library not loaded', and in both
\* cases no transport client is created and this.client stays as it was
ConnectRequirements ==
    [][ConnectCalled =>
          /\ currentDeviceId = NoDevice =>
                /\ returned'.outcome = "rejected"
                /\ returned'.value = "Device ID not set. Call setDeviceId() first."
                /\ sessions' = sessions /\ client' = client
          /\ (currentDeviceId # NoDevice /\ returned'.args.lib = "undefined") =>
                /\ returned'.outcome = "rejected"
                /\ returned'.value = "MQTT.js library not loaded"
                /\ sessions' = sessions /\ client' = client
          /\ DOMAIN sessions' \ DOMAIN sessions # {} =>
                (currentDeviceId # NoDevice /\ returned'.args.lib = "ok")]_vars

\* connect() was called for a selected device without the transport library
ConnectRequirementsWitness ==
    /\ returned.call = "connect" /\ returned.outcome = "rejected"
    /\ returned.args = [lib |-> "undefined"]
    /\ returned.value = "MQTT.js library not loaded"
    /\ currentDeviceId # NoDevice
    /\ client = 0 /\ sessions = Empty


(***************************************************************************)
(* Sessions one after the other                                            *)
(***************************************************************************)
\* the application selects a device, connects when there is no transport
\* client and no connect() is pending, and disconnects while connected; it
\* connects again until a presence message was queued. The broker accepts
\* every connection, a transport client that was ended closes and ends, and
\* the transport calls back in the order of the requests
NextSession ==
    \/ (currentDeviceId = NoDevice /\ SetDeviceId(KitchenClock))
    \/ (currentDeviceId # NoDevice /\ client = 0 /\ nextId = 0
            /\ (\A c \in DOMAIN sessions : sessions[c].promise # "pending")
            /\ Connect("ok"))
    \/ \E c \in DOMAIN sessions : EvConnect(c)
    \/ \E c \in DOMAIN sessions : (sessions[c].ended /\ EvClose(c))
    \/ \E c \in DOMAIN sessions : EvEnd(c)
    \/ (connected /\ Disconnect)
    \/ (ops # <<>> /\ Ack(1, Delivered(1)))
    \/ StatusTaskContinues(1)

SpecSession == Init /\ [][NextSession]_vars

\* the step is the first 'connect' event of transport client c
Connects(c) ==
    /\ sessions[c].phase = "connecting" /\ sessions[c].onceConnect
    /\ c \in DOMAIN sessions' /\ sessions'[c].phase = "connected"

\* the requests the step handed to the transport
Handed == {ops'[i] : i \in (Len(ops) + 1)..Len(ops')}

\* what the 'connect' event of transport client c is to bring about
Established(c) ==
    /\ connected' /\ ~reconnecting' /\ connectionAttempts' = 0
    /\ healthCheckInterval'
    /\ \A topic \in {TOPICS'.STATUS, TOPICS'.ALARM, TOPICS'.SENSORS} :
          \E op \in Handed : /\ op.kind = "subscribe" /\ op.topic = topic
                             /\ op.session = c /\ op.options = [qos |-> 1]
    /\ messageQueue # <<>> =>
          \E op \in Handed : /\ op.kind = "publish" /\ op.owner.kind = "flush"
                             /\ op.owner.entry.id = Head(messageQueue).id
    /\ statusTasks' = Append(statusTasks, "online")
    /\ "connect" \in events'
    /\ returned'.call = "connect" /\ returned'.outcome = "resolved"

\* the step continues the publication of the "online" presence message
OnlineContinues ==
    /\ statusTasks # <<>> /\ Head(statusTasks) = "online"
    /\ statusTasks' = Tail(statusTasks)
    /\ connected /\ client # 0

\* C16: when the broker accepts the connection of a connect(), the manager is
\* Connected (connected, not reconnecting, attempt counter 0), the health
\* check runs, the three device topics are subscribed, a non-empty offline
\* queue is being flushed, the "online" presence message is on its way, the
\* connect event was raised and the promise of connect() is resolved; the
\* presence message is published retained on the status topic
ConnectEstablishes ==
    [][/\ \A c \in DOMAIN sessions : Connects(c) => Established(c)
       /\ OnlineContinues =>
             \E op \in Handed :
                 /\ op.kind = "publish" /\ op.topic = TOPICS.STATUS
                 /\ op.options = [qos |-> 1, retain |-> TRUE]
                 /\ op.payload.json.status = "online"]_vars


(***************************************************************************)
(* A connection that drops                                                 *)
(***************************************************************************)
\* the application selects a device and connects when there is no transport
\* client and no connect() is pending (until a presence message was queued);
\* the broker accepts connections, the network drops them, transport clients
\* that were ended close, end and run into their connection timeout, the
\* reconnect timer fires (until two presence messages were queued), the health
\* check fires, the broker answers pings, time passes while connected, and the
\* transport calls back in the order of the requests
NextDrop ==
    \/ (currentDeviceId = NoDevice /\ SetDeviceId(KitchenClock))
    \/ (currentDeviceId # NoDevice /\ client = 0 /\ nextId = 0
            /\ (\A c \in DOMAIN sessions : sessions[c].promise # "pending")
            /\ Connect("ok"))
    \/ \E c \in DOMAIN sessions : EvConnect(c)
    \/ \E c \in DOMAIN sessions : EvClose(c)
    \/ \E c \in DOMAIN sessions : EvEnd(c)
    \/ \E c \in DOMAIN sessions : (sessions[c].ended /\ ConnectTimeout(c))
    \/ (nextId <= 1 /\ ReconnectTimerFires("ok"))
    \/ \E pingTimer \in BOOLEAN : HealthCheckFires(pingTimer)
    \/ \E c \in DOMAIN sessions : EvPingResp(c)
    \/ (connected /\ Tick)
    \/ (ops # <<>> /\ Ack(1, Delivered(1)))
    \/ StatusTaskContinues(1)

SpecDrop == Init /\ [][NextDrop]_vars

\* the step is the 'close' event of transport client c, which nobody ended
Drops(c) ==
    /\ sessions[c].phase \in {"connecting", "connected"} /\ ~sessions[c].ended
    /\ c \in DOMAIN sessions' /\ sessions'[c].phase = "closed"

StaleSessionReconnects ==
    [][(fired' = "healthCheck" /\ connected /\ client # 0 /\ Inactive(State)) =>
          \/ scheduled' \/ reconnecting'
          \/ ~connected' \/ client' # client
          \/ sessions' # sessions]_vars


(***************************************************************************)
(* disconnect and destroy                                                  *)
(***************************************************************************)
\* the application selects a device, connects when there is no transport
\* client and no connect() is pending, and calls disconnect() and destroy()
\* at any time: with and without a transport client, and again while the
\* unsubscribes of an earlier disconnect() are with the transport. It makes no
\* call after destroy() or after a presence message was queued. The broker
\* accepts every connection, a transport client that was ended closes and
\* ends, and the transport calls back in the order of the requests
NextLife ==
    \/ (currentDeviceId = NoDevice /\ SetDeviceId(KitchenClock))
    \/ (autoReconnect /\ currentDeviceId # NoDevice /\ client = 0 /\ nextId = 0
            /\ (\A c \in DOMAIN sessions : sessions[c].promise # "pending")
            /\ Connect("ok"))
    \/ \E c \in DOMAIN sessions : EvConnect(c)
    \/ \E c \in DOMAIN sessions : (sessions[c].ended /\ EvClose(c))
    \/ \E c \in DOMAIN sessions : EvEnd(c)
    \/ (autoReconnect /\ nextId = 0 /\ Disconnect)
    \/ (autoReconnect /\ nextId = 0 /\ Destroy)
    \/ (ops # <<>> /\ Ack(1, Delivered(1)))
    \/ StatusTaskContinues(1)

SpecLife == Init /\ [][NextLife]_vars

\* C19: disconnect() with a transport client asks the transport to unsubscribe
\* every recorded subscription, starts the publication of the "offline"
\* presence message when connected, and stops the health check and the
\* reconnect timer; with nothing to unsubscribe the manager is Disconnected
\* when the call is over (no client, not connected, not reconnecting).
\* Without a transport client the call changes nothing. No step, a second
\* disconnect() in a row included, ends in a failed continuation
DisconnectIdempotent ==
    [][/\ (returned'.call = "disconnect" /\ client # 0) =>
             /\ connected =>
                   \A topic \in DOMAIN subscriptions :
                       \E op \in Handed : op.kind = "unsubscribe" /\ op.topic = topic
             /\ (connected /\ currentDeviceId # NoDevice) =>
                   \E i \in 1..Len(statusTasks') : statusTasks'[i] = "offline"
             /\ ~healthCheckInterval' /\ ~reconnectTimer'.pending
             /\ Handed = {} => (client' = 0 /\ ~connected' /\ ~reconnecting')
       /\ (returned'.call = "disconnect" /\ client = 0) =>
             /\ client' = 0 /\ connected' = connected /\ reconnecting' = reconnecting
             /\ sessions' = sessions /\ ops' = ops
             /\ statusTasks' = statusTasks /\ events' = {}
       /\ "unhandledrejection" \notin events']_vars

\* C20: when disconnect() or destroy() is over, no reconnect timer is pending
\* and the health check is stopped; when a connection was established (the
\* connect() promise resolved), no reconnect timer is pending
TimersCancelled ==
    [][/\ returned'.call \in {"disconnect", "destroy"} =>
             (~reconnectTimer'.pending /\ ~healthCheckInterval')
       /\ (returned'.call = "connect" /\ returned'.outcome = "resolved") =>
             ~reconnectTimer'.pending]_vars

\* transport clients that were created and not ended
Live == {c \in DOMAIN sessions : ~sessions[c].ended /\ sessions[c].phase # "ended"}

\* connect() calls whose promise has not settled
InFlight == {c \in DOMAIN sessions : sessions[c].promise = "pending"}

\* C21: the reconnect timer starts no connect() while the promise of an
\* earlier connect() is pending, so that at most one connect attempt is in
\* flight, and at most one transport client exists that was not ended
ConnectsSerialized ==
    [][/\ fired' = "reconnect" => InFlight = {}
       /\ Cardinality(InFlight') <= 1
       /\ Cardinality(Live') <= 1]_vars

(***************************************************************************)
(* Inbound messages: the device registry and the handlers                  *)
(***************************************************************************)
\* JSON.parse('null'): the value null, which has no members to read
JSONnull == [null |-> TRUE]

\* the parts of a topic that begin with '/'
Suffixes == {"/command", "/status", "/alarm", "/sensors", "/auth",
             "/auth/response/", "/test"}

RECURSIVE UpToSlash(_)
UpToSlash(chunks) ==
    IF chunks = <<>> \/ Head(chunks) \in Suffixes THEN <<>>
    ELSE <<Head(chunks)>> \o UpToSlash(Tail(chunks))

\* topic.split('/'): parts[1] when parts[0] is 'smartclock', else null
_extractDeviceIdFromTopic(topic) ==
    IF Len(topic) >= 2 /\ Head(topic) = Head(TOPIC_PREFIX)
    THEN UpToSlash(Tail(topic))
    ELSE NoDevice

\* a mutant: a device seen again starts over with the fields of the message
UpdateDeviceActivityReplaces(s, deviceId, data) ==
    IF deviceId \notin DOMAIN s.availableDevices
    THEN _triggerEvent(
             [s EXCEPT !.availableDevices =
                 Put(@, deviceId, [name |-> deviceId, lastSeen |-> s.now,
                                   status |-> "online", data |-> data,
                                   firstSeen |-> s.now])],
             "device_connected")
    ELSE [s EXCEPT !.availableDevices[deviceId] =
             [@ EXCEPT !.lastSeen = s.now, !.data = data, !.status = "online"]]

_updateDeviceActivity(s, deviceId, data) ==
    IF deviceId \notin DOMAIN s.availableDevices
    THEN _triggerEvent(
             [s EXCEPT !.availableDevices =
                 Put(@, deviceId, [name |-> deviceId, lastSeen |-> s.now,
                                   status |-> "online", data |-> data,
                                   firstSeen |-> s.now])],
             "device_connected")
    ELSE [s EXCEPT !.availableDevices[deviceId] =
             [@ EXCEPT !.lastSeen = s.now, !.data = Merge(@, data),
                       !.status = "online"]]

\* getDevices(): one element for each entry of the registry
getDevices(s) ==
    {Merge([id |-> id], s.availableDevices[id]) : id \in DOMAIN s.availableDevices}

\* _processMessage: the handlers of the topic, then the global handlers, then
\* the 'message' event
_processMessage(s, topic) ==
    LET handlers == Get(s.messageHandlers, topic, <<>>)
        s1 == [s EXCEPT !.invoked = @ \o forEachHandler(handlers, "topic")
                                      \o forEachHandler(s.globalHandlers, "global")]
    IN  _triggerEvent(s1, "message")

\* _handleIncomingMessage for a topic that does not include
\* '/auth/response/'; for a device topic and the payload null, data.deviceId
\* throws a TypeError, which the catch of the function logs
RouteIncomingMessage(s, topic, msg) ==
    LET parsed == JSONparse(msg)
        data == parsed.data
        isJSON == parsed.ok
        deviceId == _extractDeviceIdFromTopic(topic)
    IN  IF deviceId # NoDevice /\ isJSON /\ data = JSONnull
        THEN s
        ELSE LET s1 == IF /\ deviceId # NoDevice /\ isJSON
                          /\ "deviceId" \in DOMAIN data /\ data.deviceId # NoDevice
                       THEN _updateDeviceActivity(s, data.deviceId, data)
                       ELSE s
             IN  _processMessage(s1, topic)

\* the 'message' handler of _setupEventHandlers
OnMessage(s, c, topic, msg) ==
    RouteIncomingMessage(
        [s EXCEPT !.lastActivity = s.now,
                  !.received = [aid |-> 0, session |-> c, msg |-> msg,
                                held |-> s.authToken, topic |-> topic]],
        topic, msg)

\* 'message' of transport client c on a topic it is subscribed to
EvMessage(c, topic, msg) ==
    /\ c \in DOMAIN sessions /\ sessions[c].phase = "connected" /\ ~sessions[c].ended
    /\ topic \in DOMAIN subscriptions
    /\ Step(OnMessage(State, c, topic, msg))

Subscribe(topic, options, handler) == Step(subscribe(State, topic, options, handler))
AddMessageHandler(handler) == Step(addMessageHandler(State, handler))
RemoveMessageHandler(handler) == Step(removeMessageHandler(State, handler))
On(event, callback) == Step(on(State, event, callback))

\* handlers the application registers: one that returns and one that throws
Handlers == {[id |-> 1, throws |-> FALSE], [id |-> 2, throws |-> TRUE]}
\* payloads a broker may deliver: text, null, and objects of a device
Payloads == {[text |-> "a"], [json |-> JSONnull],
             [json |-> [deviceId |-> <<"k">>, temp |-> 1]]}

NextRouter ==
    \/ (currentDeviceId = NoDevice /\ SetDeviceId(KitchenClock))
    \/ (currentDeviceId # NoDevice /\ client = 0 /\ nextId = 0
            /\ sessions = Empty /\ Connect("ok"))
    \/ \E c \in DOMAIN sessions : EvConnect(c)
    \/ (ops # <<>> /\ Ack(1, Delivered(1)))
    \/ StatusTaskContinues(1)
    \/ \E handler \in Handlers :
          (ops = <<>> /\ Subscribe(TOPICS.STATUS, Empty, handler))
    \/ \E handler \in Handlers : (ops = <<>> /\ AddMessageHandler(handler))
    \/ \E callback \in Handlers : (ops = <<>> /\ On("message", callback))
    \/ \E c \in DOMAIN sessions, topic \in {TOPICS.STATUS, TOPICS.ALARM},
             msg \in Payloads :
          (ops = <<>> /\ EvMessage(c, topic, msg))

SpecRouter == Init /\ [][NextRouter]_vars

\* the step delivered a message that is no authentication response
Inbound == "topic" \in DOMAIN received'

\* the calls the router owes the message: scope and handler, in order
Owed ==
    LET t == Get(messageHandlers, received'.topic, <<>>)
        g == globalHandlers
        e == eventCallbacks
    IN  [i \in 1..(Len(t) + Len(g) + Len(e)) |->
            IF i <= Len(t) THEN [scope |-> "topic", handler |-> t[i]]
            ELSE IF i <= Len(t) + Len(g)
            THEN [scope |-> "global", handler |-> g[i - Len(t)]]
            ELSE [scope |-> "event", handler |-> e[i - Len(t) - Len(g)]]]

\* C22: for every inbound message that is no authentication response, the
\* handlers of its topic are called in the order they were registered, then
\* the global handlers in the order they were registered, then the
\* subscribers of 'message'; a handler that throws stops none of the others
\* and the transport's callback returns normally
RouterDelivers ==
    [][Inbound => (invoked' = Owed /\ "message" \in events'
                   /\ returned'.outcome # "rejected")]_vars

(***************************************************************************)
(* The persisted records of the devices                                    *)
(***************************************************************************)
\* the devices with a persisted token or expiry, before or after the step
Persisted == DOMAIN authTokens \cup DOMAIN sessionExpiries
                \cup DOMAIN authTokens' \cup DOMAIN sessionExpiries'

\* C23: whatever a step saves or clears, the persisted token and expiry of
\* every device other than the selected one are the same after it; after a
\* logout and after a refused authentication the selected device has no
\* persisted token and no persisted expiry
OtherDevicesKept ==
    [][/\ \A d \in Persisted : d # currentDeviceId =>
             /\ Get(authTokens', d, NoToken) = Get(authTokens, d, NoToken)
             /\ Get(sessionExpiries', d, NoExpiry) = Get(sessionExpiries, d, NoExpiry)
       /\ ((returned'.call = "logout" \/ "auth_failed" \in events')
              /\ currentDeviceId # NoDevice) =>
             /\ currentDeviceId \notin DOMAIN authTokens'
             /\ currentDeviceId \notin DOMAIN sessionExpiries']_vars

\* authentication was refused for the selected device, or the application
\* logged out, while another device holds a persisted token
OtherDevicesKeptWitness ==
    /\ (returned.call = "logout" \/ "auth_failed" \in events)
    /\ \E d \in DOMAIN authTokens :
          /\ d # currentDeviceId /\ d \in DOMAIN sessionExpiries
          /\ authTokens[d] # NoToken

(***************************************************************************)
(* Storage that fails                                                      *)
(***************************************************************************)
StorageModes == {"ok", "unreadable", "full"}

\* the storage of the browser starts or stops failing
StorageChanges(mode) == storage # mode /\ Step([State EXCEPT !.storage = mode])

\* the token store of SpecToken, on storage that may fail
NextStorage ==
    \/ \E deviceId \in DeviceIds : SetDeviceId(deviceId)
    \/ Logout
    \/ GetCurrentDevice
    \/ (currentDeviceId # NoDevice /\ client = 0 /\ Connect("ok"))
    \/ \E c \in DOMAIN sessions : EvConnect(c)
    \/ \E c \in DOMAIN sessions, data \in AuthResponses : EvAuthResponse(c, data)
    \/ \E mode \in StorageModes : StorageChanges(mode)
    \/ Tick

SpecStorage == Init /\ [][NextStorage]_vars

\* the step wrote to the token store: an authentication response arrived, the
\* application logged out of a device, or a validity check found the token
\* expired
StoreWritten ==
    \/ "auth_success" \in events' \/ "auth_failed" \in events'
    \/ (returned'.call = "logout" /\ currentDeviceId # NoDevice)
    \/ /\ returned'.call \in {"getCurrentDevice", "getStatus"}
       /\ authToken # NoToken /\ tokenExpiry # NoExpiry /\ now >= tokenExpiry

\* the step read the token store: it wrote to it, or a device was selected
StoreRead == StoreWritten \/ "device_switched" \in events'

\* the storage failed under the step
StorageFailed ==
    /\ storage' = storage
    /\ \/ (storage = "unreadable" /\ StoreRead)
       \/ (storage = "full" /\ StoreWritten)

\* C24: a call that touches the token store while the storage fails does not
\* throw, and leaves the client without a token: the token and the expiry in
\* memory are none
StorageFailureDegrades ==
    [][StorageFailed =>
          /\ returned'.outcome # "rejected"
          /\ "unhandledrejection" \notin events'
          /\ authToken' = NoToken /\ tokenExpiry' = NoExpiry]_vars

(***************************************************************************)
(* Switching the device while connected                                    *)
(***************************************************************************)
\* the application connects and switches between devices; the transport
\* acknowledges the requests it holds without error, in any order, and the
\* timers of setDeviceId fire
NextSwitch ==
    \/ \E deviceId \in DeviceIds : (deviceId # currentDeviceId /\ SetDeviceId(deviceId))
    \/ (currentDeviceId # NoDevice /\ client = 0 /\ sessions = Empty /\ Connect("ok"))
    \/ \E c \in DOMAIN sessions : EvConnect(c)
    \/ \E i \in 1..Len(ops) : (Delivered(i) /\ Ack(i, TRUE))
    \/ SubscribeTimerFires
    \/ StatusTaskContinues(1)

SpecSwitch == Init /\ [][NextSwitch]_vars

\* connected, no request with the transport, no timer of setDeviceId pending
Settled ==
    /\ connected /\ client # 0 /\ currentDeviceId # NoDevice
    /\ ops = <<>> /\ subscribeTimers = 0 /\ statusTasks = <<>>

\* the topics _subscribeDeviceTopics subscribes for the selected device
DeviceTopics == {TOPICS.STATUS, TOPICS.ALARM, TOPICS.SENSORS}

\* C25: once the switches of the device have settled, the subscriptions
\* recorded are those of the topics of the selected device, each tagged with
\* the selected device, and no topic of a device selected before is recorded
SubscriptionsReplaced ==
    Settled =>
        /\ DOMAIN subscriptions = DeviceTopics
        /\ \A topic \in DOMAIN subscriptions :
              subscriptions[topic].deviceId = currentDeviceId

(***************************************************************************)
(* Flushing the offline queue                                              *)
(***************************************************************************)
\* the identities of the entries of a queue
Ids(queue) == {queue[i].id : i \in 1..Len(queue)}

\* the publishes a _processMessageQueue handed to the transport in the step
FlushHanded == {op \in Handed : op.owner.kind = "flush"}

\* the entries in front of entry id in this.messageQueue
Before(id) ==
    {messageQueue[i] : i \in {j \in 1..Len(messageQueue) :
        \E k \in (j + 1)..Len(messageQueue) : messageQueue[k].id = id}}

\* C26: a flush hands the entries to the transport in the order of the queue
\* and one at a time, the next one after the publish of the one before it has
\* settled; an entry leaves the queue when it was delivered, when it has failed
\* three times, or when a publish drops the oldest at capacity, and not before; an
\* entry that was delivered is not handed to the transport again
QueueFlushed ==
    [][/\ \A op \in FlushHanded :
             /\ op.owner.entry.id \notin deliveredIds
             /\ op.owner.entry.attempts < 3
             /\ \A i \in 1..Len(ops) : ops[i].owner.kind # "flush"
             /\ \A entry \in Before(op.owner.entry.id) :
                   entry.id \in deliveredIds \/ entry.attempts > 0
       /\ \A i \in 1..Len(messageQueue) :
             messageQueue[i].id \notin Ids(messageQueue') =>
                \/ (i = 1 /\ Len(messageQueue) >= maxQueueSize /\ nextId' > nextId)
                \/ messageQueue[i].id \in deliveredIds'
                \/ messageQueue[i].attempts >= 3]_vars

(***************************************************************************)
(* setBrightness                                                           *)
(***************************************************************************)
Max(a, b) == IF a >= b THEN a ELSE b

\* setBrightness(brightness): the argument goes into the data as it is
setBrightness(s, brightness) ==
    sendCommand(s, "setBrightness", "set_brightness", [brightness |-> brightness],
                [qos |-> 1])

\* CONFIG.COMMANDS.SET_BRIGHTNESS(brightness), for an integer: parseInt gives
\* the integer, and `|| 50` replaces 0 as it replaces NaN
SET_BRIGHTNESS(brightness) ==
    [command |-> "set_brightness",
     data |-> [brightness |-> Min(100, Max(0, IF brightness = 0 THEN 50
                                              ELSE brightness))]]

\* setBrightness(); the step keeps the argument of the call
SetBrightness(brightness) ==
    Step([setBrightness(State, brightness) EXCEPT
             !.returned.args = [brightness |-> brightness]])

\* the application builds the command with the builder of the configuration
BuildBrightness(brightness) ==
    Step([Returned(State, "SET_BRIGHTNESS", "returned", "object") EXCEPT
             !.returned.args = [brightness |-> brightness,
                                built |-> SET_BRIGHTNESS(brightness)]])

\* brightness levels the application asks for
Brightnesses == {-1, 0, 1, 50, 100, 101}

NextBrightness ==
    \/ (~connected /\ SetDeviceId(KitchenClock))
    \/ (currentDeviceId # NoDevice /\ client = 0 /\ Connect("ok"))
    \/ \E c \in DOMAIN sessions : EvConnect(c)
    \/ \E c \in DOMAIN sessions, data \in GrantOrRefusal : EvAuthResponse(c, data)
    \/ \E brightness \in Brightnesses :
          (ops = <<>> /\ statusTasks = <<>> /\ SetBrightness(brightness))
    \/ \E brightness \in Brightnesses :
          (currentDeviceId = NoDevice /\ BuildBrightness(brightness))
    \/ StatusTaskContinues(1)
    \/ \E ok \in BOOLEAN : Ack(1, ok)

SpecBrightness == Init /\ [][NextBrightness]_vars

\* C27: the brightness setBrightness hands to the transport lies in 0..100, and
\* equals the argument when the argument lies in 0..100, 0 included; the same
\* holds of the command the configuration's builder makes
BrightnessClamped ==
    [][/\ (Called("setBrightness") /\ returned'.outcome = "pending") =>
             LET asked == returned'.args.brightness
                 sent == ops'[Len(ops')].payload.json.data.brightness
             IN  /\ sent \in 0..100
                 /\ asked \in 0..100 => sent = asked
       /\ returned'.call = "SET_BRIGHTNESS" =>
             LET asked == returned'.args.brightness
                 built == returned'.args.built.data.brightness
             IN  /\ built \in 0..100
                 /\ asked \in 0..100 => built = asked]_vars

(***************************************************************************)
(* The device registry                                                     *)
(***************************************************************************)
\* what the devices report: two reports of one device with different fields,
\* and a report of another device
Reports == {[json |-> [deviceId |-> <<"k">>, temp |-> 1]],
            [json |-> [deviceId |-> <<"k">>, temp |-> 2, hum |-> 1]],
            [json |-> [deviceId |-> <<"x">>, temp |-> 1]]}

\* both devices of Reports are in the registry, at the end of the time
BothSeen == DOMAIN availableDevices = {<<"k">>, <<"x">>} /\ now = MaxTime

\* the application connects and subscribes to a topic of its own; the broker
\* delivers reports on the subscribed topics and time passes; with both
\* devices seen the application switches the device, logs out, disconnects
\* and destroys the client
NextRegistry ==
    \/ (currentDeviceId = NoDevice /\ availableDevices = Empty /\ SetDeviceId(KitchenClock))
    \/ (ops = <<>> /\ BothSeen /\ currentDeviceId = KitchenClock
            /\ SetDeviceId(<<"k">>))
    \/ (currentDeviceId # NoDevice /\ client = 0 /\ sessions = Empty
            /\ availableDevices = Empty /\ Connect("ok"))
    \/ \E c \in DOMAIN sessions : EvConnect(c)
    \/ \E c \in DOMAIN sessions : (sessions[c].ended /\ EvClose(c))
    \/ \E c \in DOMAIN sessions : EvEnd(c)
    \/ (ops # <<>> /\ Ack(1, Delivered(1)))
    \/ SubscribeTimerFires
    \/ StatusTaskContinues(1)
    \/ \E topic \in Topics :
          (ops = <<>> /\ topic \notin DOMAIN subscriptions
              /\ Subscribe(topic, Empty, NoHandler))
    \/ \E c \in DOMAIN sessions, topic \in {TOPICS.STATUS} \cup Topics, msg \in Reports :
          (ops = <<>> /\ EvMessage(c, topic, msg))
    \/ (ops = <<>> /\ BothSeen /\ Logout)
    \/ (ops = <<>> /\ BothSeen /\ connected /\ Disconnect)
    \/ (ops = <<>> /\ BothSeen /\ autoReconnect /\ Destroy)
    \/ (connected /\ ops = <<>> /\ availableDevices # Empty /\ Tick)

SpecRegistry == Init /\ [][NextRegistry]_vars

\* the step delivered a JSON message that carries a deviceId
CarriesDeviceId ==
    /\ Inbound /\ "json" \in DOMAIN received'.msg
    /\ "deviceId" \in DOMAIN received'.msg.json

\* the step delivered such a message on a topic below smartclock/
ObservedOnDeviceTopic ==
    CarriesDeviceId /\ _extractDeviceIdFromTopic(received'.topic) # NoDevice

\* what the registry owes a step, for the messages it is to observe
RegistryStep(observed) ==
    /\ \A id \in DOMAIN availableDevices :
          /\ id \in DOMAIN availableDevices'
          /\ availableDevices'[id].firstSeen = availableDevices[id].firstSeen
    /\ observed =>
          LET data == received'.msg.json
              id == data.deviceId
          IN  /\ id \in DOMAIN availableDevices'
              /\ availableDevices'[id].lastSeen = now
              /\ availableDevices'[id].status = "online"
              /\ IF id \in DOMAIN availableDevices
                 THEN /\ availableDevices'[id].data =
                            Merge(availableDevices[id].data, data)
                      /\ "device_connected" \notin events'
                 ELSE /\ availableDevices'[id].data = data
                      /\ availableDevices'[id].firstSeen = now
                      /\ "device_connected" \in events'
              /\ \A other \in DOMAIN availableDevices' \ {id} :
                    /\ other \in DOMAIN availableDevices
                    /\ availableDevices'[other] = availableDevices[other]
    /\ ~observed =>
          (availableDevices' = availableDevices /\ "device_connected" \notin events')
    /\ {device.id : device \in getDevices([availableDevices |-> availableDevices'])}
          = DOMAIN availableDevices'

SelectIds == {<<>>, <<" ">>, <<" ", " ">>, <<" ", "k">>, <<"k", " ">>, <<"k">>,
              KitchenClock}

\* no request is with the transport and no timer of setDeviceId is pending
Quiet == ops = <<>> /\ subscribeTimers = 0 /\ statusTasks = <<>>

\* the application selects devices, connects and logs out; the broker grants
\* and refuses authentication, acknowledges requests, and time passes
NextSelect ==
    \/ \E deviceId \in SelectIds : (Quiet /\ SetDeviceId(deviceId))
    \/ (currentDeviceId # NoDevice /\ client = 0 /\ sessions = Empty /\ Connect("ok"))
    \/ \E c \in DOMAIN sessions : EvConnect(c)
    \/ \E c \in DOMAIN sessions, data \in GrantOrRefusal :
          (Quiet /\ EvAuthResponse(c, data))
    \/ (ops # <<>> /\ Ack(1, Delivered(1)))
    \/ SubscribeTimerFires
    \/ StatusTaskContinues(1)
    \/ (Quiet /\ ~connected /\ Logout)
    \/ (Quiet /\ Tick)

SpecSelect == Init /\ [][NextSelect]_vars

\* the identifier is empty or consists of white space
Blank(raw) == \A i \in 1..Len(raw) : raw[i] \in WhiteSpace

\* the identifier without the white space around it
Stripped(raw) ==
    LET inner == {i \in 1..Len(raw) : raw[i] \notin WhiteSpace}
        lo == CHOOSE i \in inner : \A j \in inner : i <= j
        hi == CHOOSE i \in inner : \A j \in inner : i >= j
    IN  SubSeq(raw, lo, hi)

\* the token the storage holds for the device, if it has not expired
Stored(id) ==
    IF /\ id \in DOMAIN authTokens /\ id \in DOMAIN sessionExpiries
       /\ authTokens[id] # NoToken /\ now < sessionExpiries[id]
    THEN [token |-> authTokens[id], expiry |-> sessionExpiries[id]]
    ELSE [token |-> NoToken, expiry |-> NoExpiry]

NextReplace ==
    \/ (currentDeviceId = NoDevice /\ SetDeviceId(KitchenClock))
    \/ (currentDeviceId # NoDevice /\ nextId = 0 /\ Connect("ok"))
    \/ \E c \in DOMAIN sessions : EvConnect(c)
    \/ \E c \in DOMAIN sessions : EvClose(c)
    \/ \E c \in DOMAIN sessions : EvEnd(c)
    \/ (nextId <= 1 /\ ReconnectTimerFires("ok"))
    \/ (ops # <<>> /\ Ack(1, Delivered(1)))
    \/ StatusTaskContinues(1)

SpecReplace == Init /\ [][NextReplace]_vars

\* the transport clients the step creates
Created == DOMAIN sessions' \ DOMAIN sessions

\* the transport clients the step ends
Ended ==
    {c \in DOMAIN sessions \cap DOMAIN sessions' :
        ~sessions[c].ended /\ sessions'[c].ended}

\* C30: the cleanup that the disconnect() inside connect() starts affects the
\* old transport client only: the client a connect() creates is this.client
\* and not ended when the call returns, and no later step ends the client
\* that is this.client (the cleanup ends it, nulls this.client and resets
\* connected in one step)
ReplacedClientOnly ==
    [][/\ \A c \in Created : client' = c /\ ~sessions'[c].ended
       /\ \A c \in Ended : c # client]_vars

(***************************************************************************)
(* Reconnecting after a drop                                               *)
(***************************************************************************)
\* the network drops the connection of the transport client that is
\* this.client, once, before any presence message was queued
Drop(c) ==
    /\ c = client /\ connected /\ nextId = 0
    /\ c \in DOMAIN sessions /\ sessions[c].phase = "connected" /\ ~sessions[c].ended
    /\ EvClose(c)

\* a transport client that was ended closes
CloseAfterEnd(c) == c \in DOMAIN sessions /\ sessions[c].ended /\ EvClose(c)

\* the connection timeout of a transport client that was ended before the
\* broker answered
TimeoutAfterEnd(c) == c \in DOMAIN sessions /\ sessions[c].ended /\ ConnectTimeout(c)

\* the application can select a device or make its one connect()
CanStart ==
    \/ currentDeviceId = NoDevice
    \/ client = 0 /\ sessions = Empty /\ nextId = 0 /\ connectionAttempts = 0

\* the application selects a device and connects once; the broker accepts
\* every connection, the network drops the connection once, a transport
\* client that lost its connection starts a connection attempt of its own
\* (reconnectPeriod: 2000), transport clients that were ended close, end and
\* run into their connection timeout, the reconnect timer fires, the queue is
\* flushed, and the transport calls back in the order of the requests
NextRevive ==
    \/ (currentDeviceId = NoDevice /\ SetDeviceId(KitchenClock))
    \/ (currentDeviceId # NoDevice /\ CanStart /\ Connect("ok"))
    \/ \E c \in DOMAIN sessions : EvConnect(c)
    \/ \E c \in DOMAIN sessions : EvReconnect(c)
    \/ \E c \in DOMAIN sessions : Drop(c)
    \/ \E c \in DOMAIN sessions : CloseAfterEnd(c)
    \/ \E c \in DOMAIN sessions : EvEnd(c)
    \/ \E c \in DOMAIN sessions : TimeoutAfterEnd(c)
    \/ ReconnectTimerFires("ok")
    \/ FlushDelayDone(1)
    \/ (ops # <<>> /\ Ack(1, Delivered(1)))
    \/ StatusTaskContinues(1)

\* handler result s is within the bounds and changes the state
CanStep(s) ==
    LET r == Finish(s)
    IN  Bounded(r) /\ r # State

\* the states in which the steps of NextRevive other than the drop can be taken
CanEvConnect ==
    \E c \in DOMAIN sessions :
        /\ Connecting(c) /\ ~sessions[c].ended
        /\ LET s1 == [State EXCEPT !.sessions[c].phase = "connected"]
           IN  CanStep(IF sessions[c].onceConnect THEN OnConnect(s1, c) ELSE s1)

CanEvReconnect ==
    \E c \in DOMAIN sessions :
        /\ sessions[c].phase = "closed" /\ ~sessions[c].ended
        /\ CanStep(OnReconnect([State EXCEPT !.sessions[c].phase = "connecting"]))

CanCloseAfterEnd ==
    \E c \in DOMAIN sessions :
        /\ Open(c) /\ sessions[c].ended
        /\ CanStep(OnClose([State EXCEPT !.sessions[c].phase = "closed"]))

CanEvEnd ==
    \E c \in DOMAIN sessions :
        /\ sessions[c].phase = "closed" /\ sessions[c].ended
        /\ CanStep(OnEnd([State EXCEPT !.sessions[c].phase = "ended"]))

CanTimeoutAfterEnd ==
    \E c \in DOMAIN sessions :
        /\ sessions[c].ended /\ sessions[c].timeout
        /\ CanStep(OnConnectTimeout(State, c))

CanReconnectTimerFire ==
    /\ reconnectTimer.pending
    /\ CanStep([ReconnectTimeout(State, "ok") EXCEPT !.fired = "reconnect",
                                                     !.returned.args = [lib |-> "ok"]])

CanFlushDelayDone ==
    /\ flushes # <<>> /\ flushes[1].pc = "delay"
    /\ CanStep(FlushResume(State, flushes[1].fid))

CanAck == ops # <<>> /\ CanStep(TransportCallback(State, 1, Delivered(1)))

CanStatusTaskContinue == statusTasks # <<>> /\ CanStep(StatusContinuation(State, 1))

\* everything but the drop happens when it can: the broker answers, the
\* transport emits its events and calls back, timers fire, continuations run.
\* Weak fairness of each step, with the states in which it can be taken
\* written out: the step is not left waiting forever
FairRevive ==
    /\ []<>(~CanEvConnect) \/ []<><<\E c \in DOMAIN sessions : EvConnect(c)>>_vars
    /\ []<>(~CanEvReconnect) \/ []<><<\E c \in DOMAIN sessions : EvReconnect(c)>>_vars
    /\ []<>(~CanCloseAfterEnd) \/ []<><<\E c \in DOMAIN sessions : CloseAfterEnd(c)>>_vars
    /\ []<>(~CanEvEnd) \/ []<><<\E c \in DOMAIN sessions : EvEnd(c)>>_vars
    /\ []<>(~CanTimeoutAfterEnd) \/ []<><<\E c \in DOMAIN sessions : TimeoutAfterEnd(c)>>_vars
    /\ []<>(~CanReconnectTimerFire) \/ []<><<ReconnectTimerFires("ok")>>_vars
    /\ []<>(~CanFlushDelayDone) \/ []<><<FlushDelayDone(1)>>_vars
    /\ []<>(~CanAck) \/ []<><<ops # <<>> /\ Ack(1, Delivered(1))>>_vars
    /\ []<>(~CanStatusTaskContinue) \/ []<><<StatusTaskContinues(1)>>_vars

SpecRevive == Init /\ [][NextRevive]_vars /\ FairRevive

\* the connection of this.client was closed by the network, with
\* auto-reconnect enabled and fewer than maxConnectionAttempts attempts made
Dropped ==
    /\ autoReconnect /\ connectionAttempts < maxConnectionAttempts
    /\ ~connected
    /\ client \in DOMAIN sessions
    /\ sessions[client].phase = "closed" /\ ~sessions[client].ended

\* the Connected state: this.client is a transport client the broker accepted
Revived ==
    /\ connected /\ client \in DOMAIN sessions
    /\ sessions[client].phase = "connected" /\ ~sessions[client].ended

\* the liveness, under the fairness of SpecRevive
ReconnectsEventually == Dropped ~> (Revived /\ connectionAttempts = 0)

\* nothing is left to happen but a drop by the network: no call of the
\* application, no request with the transport, no continuation, no timer, and
\* every transport client is connected and was not ended
NothingLeft ==
    /\ ~CanStart
    /\ ops = <<>> /\ statusTasks = <<>> /\ ~reconnectTimer.pending
    /\ \A i \in 1..Len(flushes) : flushes[i].pc # "delay"
    /\ \A c \in DOMAIN sessions :
          sessions[c].phase = "connected" /\ ~sessions[c].ended

\* C31: with auto-reconnect enabled, fewer than maxConnectionAttempts failed
\* attempts and a broker that accepts every connection, an unclean close is
\* eventually followed by the Connected state with the attempt counter at 0:
\* when nothing is left to happen, the client is in the Connected state and
\* the counter is 0
DropEndsConnected ==
    (NothingLeft /\ autoReconnect /\ connectionAttempts < maxConnectionAttempts)
        => (Revived /\ connectionAttempts = 0)

(***************************************************************************)
(* After disconnect()                                                      *)
(***************************************************************************)
\* the application selects a device, connects when it has no transport client
\* and calls disconnect() on the client it has, before and after the broker
\* accepted the connection; it makes no other call, and none once a reconnect
\* was scheduled. The network drops no
\* connection: a transport client closes only after it was ended. The
\* transport emits its events and calls back, and the timers fire (the
\* reconnect timer until two attempts were made)
NextAfter ==
    \/ (currentDeviceId = NoDevice /\ SetDeviceId(KitchenClock))
    \/ (currentDeviceId # NoDevice /\ CanStart /\ Connect("ok"))
    \/ \E c \in DOMAIN sessions : EvConnect(c)
    \/ (client # 0 /\ lastDelay[2] = NoDelay /\ Disconnect)
    \/ \E c \in DOMAIN sessions : CloseAfterEnd(c)
    \/ \E c \in DOMAIN sessions : EvEnd(c)
    \/ \E c \in DOMAIN sessions : TimeoutAfterEnd(c)
    \/ (connectionAttempts <= 1 /\ ReconnectTimerFires("ok"))
    \/ (ops # <<>> /\ Ack(1, Delivered(1)))
    \/ StatusTaskContinues(1)

SpecAfter == Init /\ [][NextAfter]_vars

\* the step is the 'close' of a transport client that disconnect() ended
EndedCloses ==
    \E c \in DOMAIN sessions \cap DOMAIN sessions' :
        /\ sessions[c].ended /\ Open(c)
        /\ sessions'[c].phase = "closed"

\* C32: after disconnect() the client stays disconnected: the 'close' of the
\* ended transport client schedules no reconnect, and no transport client is
\* created but by a connect() of the application
DisconnectStays ==
    [][/\ EndedCloses => (~scheduled' /\ ~reconnectTimer'.pending)
       /\ Created # {} => (returned'.call = "connect" /\ fired' # "reconnect")]_vars

(***************************************************************************)
(* Messages accepted while disconnected                                    *)
(***************************************************************************)
\* the entries of the offline queue that are or were with the transport: a
\* publish of the entry is waiting for its callback before or after the step,
\* was acknowledged, or has failed
WithTransport ==
    {op.owner.entry.id : op \in {ops[i] : i \in 1..Len(ops)}
                                 \cup {ops'[i] : i \in 1..Len(ops')}}
        \cup deliveredIds'
        \cup {messageQueue[i].id : i \in {j \in 1..Len(messageQueue) :
                                             messageQueue[j].attempts > 0}}

\* C33: no accepted message is silently lost: an entry leaves the offline
\* queue only when it was handed to the transport, when a publish drops the
\* oldest entry at capacity, or after three failed attempts; the entries that
\* are put into the queue while a flush runs are in the queue when it ends
NoAcceptedMessageLost ==
    [][\A i \in 1..Len(messageQueue) :
          messageQueue[i].id \notin Ids(messageQueue') =>
             \/ messageQueue[i].id \in WithTransport
             \/ (i = 1 /\ Len(messageQueue) >= maxQueueSize /\ nextId' > nextId)
             \/ messageQueue[i].attempts >= 3]_vars

(***************************************************************************)
(* Presence messages across a reconnect                                    *)
(***************************************************************************)
\* request op publishes the retained presence message `status`
Presence(op, status) ==
    /\ op.kind = "publish" /\ op.topic = TOPICS.STATUS
    /\ "json" \in DOMAIN op.payload
    /\ "status" \in DOMAIN op.payload.json
    /\ op.payload.json.status = status

\* C34: an "offline" presence message that was queued during the outage is
\* not published after the "online" message of the new session: when a flush
\* hands it to a transport client, no "online" message is with that client
PresenceOrdered ==
    [][\A op \in FlushHanded :
          Presence(op, "offline") =>
              \A i \in 1..Len(ops) :
                  ~(Presence(ops[i], "online") /\ ops[i].session = op.session)]_vars

(***************************************************************************)
(* C35: tokens and devices                                                 *)
(***************************************************************************)
\* the granting response of the scenario
Grant == JSONstringify([success |-> TRUE, token |-> "token", expiry |-> 1,
                        message |-> ""])

\* the application selects one of two devices, connects once, authenticates
\* once, and selects the other device after the request of the authentication
\* was published and before it is answered; the device grants, the transport acknowledges in the order of the requests, and
\* commands are sent
NextCross ==
    \/ \E deviceId \in DeviceIds :
           /\ deviceId # currentDeviceId
           /\ client = 0 \/ (Len(auths) = 1 /\ auths[1].promise = "pending"
                                 /\ auths[1].requested)
           /\ SetDeviceId(deviceId)
    \/ (currentDeviceId # NoDevice /\ client = 0 /\ sessions = Empty /\ Connect("ok"))
    \/ \E c \in DOMAIN sessions : EvConnect(c)
    \/ (auths = <<>> /\ Authenticate(<<"p", "w">>))
    \/ \E c \in DOMAIN sessions, a \in 1..Len(auths) : EvAuthMessage(c, a, Grant)
    \/ (authToken # NoToken /\ SendCommand("ping", Empty))
    \/ (ops # <<>> /\ Ack(1, TRUE))
    \/ SubscribeTimerFires
    \/ StatusTaskContinues(1)

SpecCross == Init /\ [][NextCross]_vars

\* the device for which the a-th authenticate() was called: the one whose key
\* is in the response topic the call subscribed to
RequestedFor(a) ==
    CHOOSE d \in DeviceIds :
        auths[a].topic = TOPIC_PREFIX \o DeviceKey(d)
                             \o <<"/auth/response/", auths[a].clientId>>

\* the command envelopes the step handed to the transport
Envelopes ==
    {ops'[i].payload.json : i \in {j \in 1..Len(ops') :
                                       /\ j > Len(ops) \/ ops'[j] # ops[j]
                                       /\ ops'[j].owner.kind = "command"}}

\* C35: the token of a granting response is stored under the device for which
\* authenticate() was called and under no other device, also when setDeviceId
\* selected another device between the request and the response; and a command
\* envelope that carries the token names the device it was issued for
TokensStayWithDevice ==
    [][/\ Granted =>
              \A d \in DeviceIds :
                  Get(authTokens', d, NoToken) =
                      IF d = RequestedFor(received'.aid)
                      THEN received'.msg.json.token
                      ELSE Get(authTokens, d, NoToken)
       /\ \A e \in Envelopes :
              (Len(auths) = 1 /\ e.auth.token # NoToken)
                  => e.auth.deviceId = RequestedFor(1)]_vars

\* a grant arrives for the device that is still selected, and a command is sent
\* with the token
GrantForSelected ==
    /\ received.aid = 1 /\ "json" \in DOMAIN received.msg
    /\ received.msg.json.success
    /\ currentDeviceId = RequestedFor(1)
    /\ Get(authTokens, currentDeviceId, NoToken) = "token"
    /\ \E i \in 1..Len(ops) : ops[i].owner.kind = "command"

(***************************************************************************)
(* C36: what a resolved authenticate() leaves                              *)
(***************************************************************************)
\* the application selects the device, connects once and authenticates, one
\* call at a time; the device answers with any response, the transport
\* acknowledges in the order of the requests, and commands are sent
NextShapes ==
    \/ (currentDeviceId = NoDevice /\ SetDeviceId(KitchenClock))
    \/ (currentDeviceId # NoDevice /\ client = 0 /\ sessions = Empty /\ Connect("ok"))
    \/ \E c \in DOMAIN sessions : EvConnect(c)
    \/ ((\A a \in 1..Len(auths) : auths[a].promise # "pending")
            /\ Authenticate(<<"p", "w">>))
    \/ \E c \in DOMAIN sessions, a \in 1..Len(auths), msg \in AuthReplies :
           EvAuthMessage(c, a, msg)
    \/ (returned.call = "authenticate" /\ SendCommand("ping", Empty))
    \/ (ops # <<>> /\ Ack(1, TRUE))
    \/ StatusTaskContinues(1)

SpecShapes == Init /\ [][NextShapes]_vars

\* the promise of authenticate() resolved in this step
AuthenticateResolved ==
    returned'.call = "authenticate" /\ returned'.outcome = "resolved"

\* what a sendCommand issued now returns
CommandNow == sendCommand(State, "sendCommand", "ping", Empty, Empty).returned

\* C36: when the promise of authenticate() resolves, an unexpired token of the
\* selected device is held in memory and in the persisted record, auth_success
\* and not auth_failed was raised, and a sendCommand issued at once on the
\* connected session is not rejected for want of authentication
ResolvedHoldsToken ==
    [][AuthenticateResolved =>
          /\ authToken' # NoToken
          /\ tokenExpiry' # NoExpiry /\ now' < tokenExpiry'
          /\ Get(authTokens', currentDeviceId', NoToken) = authToken'
          /\ "auth_success" \in events' /\ "auth_failed" \notin events'
          /\ connected' => CommandNow'.outcome = "pending"]_vars

(***************************************************************************)
(* C37: connect() rejected before a transport client is created            *)
(***************************************************************************)
\* the step is a connect() rejected for want of a device or of the transport
\* library
RejectedEarly ==
    /\ ConnectCalled /\ returned'.outcome = "rejected"
    /\ currentDeviceId = NoDevice \/ returned'.args.lib = "undefined"

\* C37: a connect() rejected because no device is selected or the transport
\* library is missing creates no transport client, leaves the attempt counter,
\* connected and reconnecting as they were, and schedules no reconnect timer
RejectedConnectInert ==
    [][RejectedEarly =>
          /\ sessions' = sessions /\ client' = client
          /\ connectionAttempts' = connectionAttempts
          /\ connected' = connected /\ reconnecting' = reconnecting
          /\ ~scheduled' /\ ~reconnectTimer'.pending]_vars

(***************************************************************************)
(* C38: the subscriptions map and the session                              *)
(***************************************************************************)
\* the topic the application subscribes to
CallerTopic == <<"app/topic">>

\* the application selects the device, connects, and subscribes to a topic of
\* its own on the first transport client; the network drops the connection
\* once, the reconnect timer fires, ended transport clients close and end, the
\* broker accepts every connection and the transport calls back in the order
\* of the requests
NextMirror ==
    \/ (currentDeviceId = NoDevice /\ SetDeviceId(KitchenClock))
    \/ (currentDeviceId # NoDevice /\ CanStart /\ Connect("ok"))
    \/ \E c \in DOMAIN sessions : EvConnect(c)
    \/ (client = 1 /\ ops = <<>> /\ CallerTopic \notin DOMAIN subscriptions
            /\ Subscribe(CallerTopic, Empty, NoHandler))
    \/ \E c \in DOMAIN sessions : Drop(c)
    \/ \E c \in DOMAIN sessions : CloseAfterEnd(c)
    \/ \E c \in DOMAIN sessions : EvEnd(c)
    \/ \E c \in DOMAIN sessions : TimeoutAfterEnd(c)
    \/ ReconnectTimerFires("ok")
    \/ FlushDelayDone(1)
    \/ (ops # <<>> /\ Ack(1, Delivered(1)))
    \/ StatusTaskContinues(1)

SpecMirror == Init /\ [][NextMirror]_vars

\* the step is the first 'connect' of the transport client that is this.client:
\* a clean session, on which nothing is subscribed yet
SessionOpens ==
    /\ ~connected /\ connected' /\ client' # 0
    /\ client' \in DOMAIN sessions /\ sessions[client'].onceConnect
    /\ ~sessions'[client'].onceConnect

\* the topics requested on transport client c
Requested(c) ==
    {ops'[i].topic : i \in {j \in 1..Len(ops') :
                                ops'[j].kind = "subscribe" /\ ops'[j].session = c}}

\* C38: the subscriptions map mirrors the session: when a new, clean session
\* opens after a close, every topic the map records is subscribed again on the
\* new transport client, and no record remains for a topic the application
\* subscribed to on the old one
RecordsMirrorSession ==
    [][SessionOpens => DOMAIN subscriptions' \subseteq Requested(client')]_vars

(***************************************************************************)
(* C39: messages on a response topic of authenticate()                     *)
(***************************************************************************)
\* topic.includes(part), for a part that is one piece of the topic
includes(topic, part) == \E i \in 1..Len(topic) : topic[i] = part

\* a mutant: an authentication response goes on to the router
IncomingMessageNoReturn(s, topic, msg) ==
    IF includes(topic, "/auth/response/")
    THEN RouteIncomingMessage(_handleIncomingMessage(s, msg), topic, msg)
    ELSE RouteIncomingMessage(s, topic, msg)

\* _handleIncomingMessage(topic, message, packet): an authentication response
\* is handled and the function returns, any other message is routed
IncomingMessage(s, topic, msg) ==
    IF includes(topic, "/auth/response/")
    THEN _handleIncomingMessage(s, msg)
    ELSE RouteIncomingMessage(s, topic, msg)

\* the authenticate() calls whose messageHandler is registered on transport
\* client c for the topic
Listening(s, c, topic) ==
    {a \in 1..Len(s.auths) : s.auths[a].listener = c /\ s.auths[a].topic = topic}

\* 'message' of transport client c: the handler of _setupEventHandlers, then
\* the messageHandler of an authenticate() that waits on the topic
OnInbound(s, c, topic, msg) ==
    LET s1 == IncomingMessage(
                  [s EXCEPT !.lastActivity = s.now,
                            !.received = [aid |-> 0, session |-> c, msg |-> msg,
                                          held |-> s.authToken, topic |-> topic]],
                  topic, msg)
    IN  IF Listening(s1, c, topic) = {} THEN s1
        ELSE AuthMessageHandler(s1, CHOOSE a \in Listening(s1, c, topic) : TRUE, msg)

\* the topic is subscribed on the transport client, by subscribe() or by an
\* authenticate()
EvInbound(c, topic, msg) ==
    /\ c \in DOMAIN sessions /\ sessions[c].phase = "connected" /\ ~sessions[c].ended
    /\ \/ topic \in DOMAIN subscriptions
       \/ \E a \in 1..Len(auths) : auths[a].topic = topic /\ auths[a].subscribed
    /\ Step(OnInbound(State, c, topic, msg))

\* the topics of the scenario: the status topic of the device and the response
\* topics of the authenticate() calls
InboundTopics == {TOPICS.STATUS} \cup {auths[a].topic : a \in 1..Len(auths)}
\* what arrives: a grant, a refusal, text; the grant names a device
InboundPayloads ==
    {JSONstringify([success |-> TRUE, token |-> "token", expiry |-> 1,
                    message |-> "", deviceId |-> <<"k">>]),
     JSONstringify([success |-> FALSE, token |-> NoToken, expiry |-> 0,
                    message |-> "denied"]),
     [text |-> "?"]}

\* the application selects the device, connects once, authenticates once and
\* registers a handler for a topic, a global handler and a subscriber of
\* 'message'; messages arrive on the subscribed topics and the transport
\* acknowledges in the order of the requests
NextInbound ==
    \/ (currentDeviceId = NoDevice /\ SetDeviceId(KitchenClock))
    \/ (currentDeviceId # NoDevice /\ client = 0 /\ sessions = Empty /\ Connect("ok"))
    \/ \E c \in DOMAIN sessions : EvConnect(c)
    \/ (auths = <<>> /\ Authenticate(<<"p", "w">>))
    \/ \E topic \in InboundTopics :
           /\ ops = <<>> /\ topic \notin DOMAIN messageHandlers
           /\ Subscribe(topic, Empty, [id |-> 1, throws |-> FALSE])
    \/ (globalHandlers = <<>> /\ AddMessageHandler([id |-> 1, throws |-> FALSE]))
    \/ (eventCallbacks = <<>> /\ On("message", [id |-> 1, throws |-> FALSE]))
    \/ \E c \in DOMAIN sessions, topic \in InboundTopics, msg \in InboundPayloads :
           EvInbound(c, topic, msg)
    \/ (ops # <<>> /\ Ack(1, TRUE))
    \/ StatusTaskContinues(1)

SpecInbound == Init /\ [][NextInbound]_vars

\* the step delivered a message on a response topic of authenticate()
ResponseArrives ==
    "topic" \in DOMAIN received' /\ includes(received'.topic, "/auth/response/")

\* C39: a message on an authentication-response topic is consumed by the
\* authentication alone: no handler of the topic, no global handler and no
\* subscriber of 'message' is called with it, and the registry of devices is
\* left as it was
AuthResponseConsumed ==
    [][ResponseArrives =>
          /\ invoked' = <<>>
          /\ "message" \notin events' /\ "device_connected" \notin events'
          /\ availableDevices' = availableDevices]_vars

\* a grant that names a device arrived on a response topic for which a handler
\* is registered, with a global handler and a subscriber of 'message' present,
\* and the token it carries was taken
AuthResponseConsumedWitness ==
    /\ "topic" \in DOMAIN received /\ includes(received.topic, "/auth/response/")
    /\ received.topic \in DOMAIN messageHandlers
    /\ globalHandlers # <<>> /\ eventCallbacks # <<>>
    /\ "json" \in DOMAIN received.msg /\ "deviceId" \in DOMAIN received.msg.json
    /\ authToken = "token" /\ "auth_success" \in events
    /\ invoked = <<>> /\ availableDevices = Empty

(***************************************************************************)
(* C40: after destroy()                                                    *)
(***************************************************************************)
\* destroy() was called (nothing else clears autoReconnect), and every
\* callback that was pending has run: no request is with the transport, no
\* presence message waits for the address, no queue run is in progress and
\* every transport client has ended
Destroyed ==
    /\ ~autoReconnect
    /\ ops = <<>> /\ statusTasks = <<>> /\ flushes = <<>>
    /\ sessions = Empty

\* C40: once destroy() was called and the pending callbacks have run, no
\* reconnect timer and no health check is pending, there is no transport
\* client, and the offline queue, the subscriptions, the handlers of topics,
\* the global handlers and the event callbacks are empty
DestroyIsTerminal ==
    Destroyed =>
        /\ ~reconnectTimer.pending /\ ~healthCheckInterval
        /\ client = 0 /\ ~connected
        /\ messageQueue = <<>>
        /\ subscriptions = Empty /\ messageHandlers = Empty
        /\ globalHandlers = <<>> /\ eventCallbacks = <<>>

====
